---- MODULE Spec2Model ----
(***************************************************************************)
(* Retrieval-strategy orchestration and reliability pipeline of atlas-rag. *)
(*                                                                         *)
(*   Spec      one chat request: the primary event stream                  *)
(*             (app/api/chat.py, _event_stream) and the shadow retrieval   *)
(*             task it may launch (app/chat/chat_shadow.py).               *)
(*   SpecConc  two requests with different ids on one worker.              *)
(*   SpecRetry retry_with_backoff (app/core/reliability.py).               *)
(*   SpecPlan  resolve_retrieval_plan (app/rag/retrieval_strategy.py).     *)
(***************************************************************************)
EXTENDS Naturals, Integers, Sequences, FiniteSets, TLC

\* ------------------------------------------------------------------ bounds
\* Token deltas the LLM stream yields in one generate stage.
MaxTokens == 1
\* Largest `attempts` argument retry_with_backoff is called with.
MaxAttempts == 3

\* The longest query, in characters.
MaxQueryLen == 3

\* The length of a per-reformulation result list.
ListDepth == 7

\* The largest k asked of retrieve_top_k.
MaxK == 3

\* Longest chunk list handed to the shadow evaluation.
MaxChunks == 2

\* Shadow evaluations each observer thread reports, and renders of the
\* metrics text.
MaxObservations == 2
MaxRenders == 1

\* ------------------------------------------------------- program constants
\* dependency_retry_attempts(): DEPENDENCY_RETRY_ATTEMPTS defaults to 2.
DefaultRetryAttempts == 2

\* ContextVar("request_id", default="-")
DefaultRequestId == "-"

\* `rrf_k: int = 60`
rrf_k == 60

\* _simple_reformulations builds three variants, so at most three lists.
MaxReformulations == 3

Reqs == {"r1", "r2"}

\* request_id = None, as distinct from the empty string.
NoneId == "<None>"

\* `seed = request_id or "anonymous"`
SeedOf(request_id) == IF request_id \in {NoneId, ""} THEN "anonymous" ELSE request_id

\* int(sha256(seed)[:8], 16) % 100 of the seeds the model uses.
Bucket(seed) ==
    CASE seed = "r1" -> 74
      [] seed = "r2" -> 57
      [] seed = "anonymous" -> 42
      [] seed = "rid-193" -> 0
      [] seed = "rid-35" -> 49
      [] seed = "rid-157" -> 50
      [] seed = "rid-124" -> 99

\* ------------------------------------------------------------ data values
Strategies == {"baseline", "advanced_hybrid", "advanced_hybrid_rerank"}
AdvancedStrategies == {"advanced_hybrid", "advanced_hybrid_rerank"}
RerankerVariants == {"rrf_simple", "cross_encoder"}
RewritePolicies == {"disabled", "simple", "llm"}
EvalModes == {"off", "shadow"}

\* AdvancedRetrievalConfig as the planner and the orchestrator read it.
Configs ==
    [enabled : BOOLEAN,
     retrieval_strategy : Strategies,
     reranker_variant : RerankerVariants,
     query_rewrite_policy : RewritePolicies,
     adv_retrieval_eval_mode : EvalModes,
     adv_retrieval_eval_sample_percent : {0, 100}]

\* The exceptions a step can raise, by what the orchestrator reads of them:
\* isinstance(e, DependencyError), e.retryable, and the first keyword that
\* chat_error_code finds in str(e).lower().
ExcKinds ==
    {e \in [dep : BOOLEAN, retryable : BOOLEAN, msg : {"embed", "timeout", "other"}] :
        e.retryable => e.dep}

NoFaultExc == [dep |-> FALSE, retryable |-> FALSE, msg |-> "other"]

FaultStages == {"none", "context", "rerank", "retrieve", "build_context", "generate"}

\* ---------------------------------------------------------------- planner
resolve_retrieval_plan_forced_off(request_use_reranking, advanced_cfg) ==
    [advanced_enabled |-> advanced_cfg.enabled,
     retrieval_strategy |-> advanced_cfg.retrieval_strategy,
     query_rewrite_policy |-> advanced_cfg.query_rewrite_policy,
     reranker_variant |-> advanced_cfg.reranker_variant,
     use_reranking |-> request_use_reranking]

resolve_retrieval_plan(request_use_reranking, advanced_cfg) ==
    LET strategy == advanced_cfg.retrieval_strategy
        use_reranking ==
            IF advanced_cfg.enabled /\ strategy \in {"advanced_hybrid", "advanced_hybrid_rerank"}
            THEN TRUE
            ELSE request_use_reranking
    IN  [advanced_enabled |-> advanced_cfg.enabled,
         retrieval_strategy |-> strategy,
         query_rewrite_policy |-> advanced_cfg.query_rewrite_policy,
         reranker_variant |-> advanced_cfg.reranker_variant,
         use_reranking |-> use_reranking]

\* Faulty variant of resolve_shadow_retrieval_plan: the shadow plan keeps the
\* primary's use_reranking.
resolve_shadow_retrieval_plan_same_reranking(primary_plan) ==
    IF primary_plan.retrieval_strategy \in {"advanced_hybrid", "advanced_hybrid_rerank"}
    THEN [advanced_enabled |-> FALSE,
          retrieval_strategy |-> "baseline",
          query_rewrite_policy |-> "disabled",
          reranker_variant |-> primary_plan.reranker_variant,
          use_reranking |-> primary_plan.use_reranking]
    ELSE [advanced_enabled |-> TRUE,
          retrieval_strategy |-> "advanced_hybrid",
          query_rewrite_policy |->
              IF primary_plan.query_rewrite_policy # "disabled"
              THEN primary_plan.query_rewrite_policy
              ELSE "simple",
          reranker_variant |-> primary_plan.reranker_variant,
          use_reranking |-> primary_plan.use_reranking]

resolve_shadow_retrieval_plan_always_simple(primary_plan) ==
    IF primary_plan.retrieval_strategy \in {"advanced_hybrid", "advanced_hybrid_rerank"}
    THEN [advanced_enabled |-> FALSE,
          retrieval_strategy |-> "baseline",
          query_rewrite_policy |-> "disabled",
          reranker_variant |-> primary_plan.reranker_variant,
          use_reranking |-> FALSE]
    ELSE [advanced_enabled |-> TRUE,
          retrieval_strategy |-> "advanced_hybrid",
          query_rewrite_policy |-> "simple",
          reranker_variant |-> primary_plan.reranker_variant,
          use_reranking |-> TRUE]

resolve_shadow_retrieval_plan(primary_plan) ==
    IF primary_plan.retrieval_strategy \in {"advanced_hybrid", "advanced_hybrid_rerank"}
    THEN [advanced_enabled |-> FALSE,
          retrieval_strategy |-> "baseline",
          query_rewrite_policy |-> "disabled",
          reranker_variant |-> primary_plan.reranker_variant,
          use_reranking |-> FALSE]
    ELSE [advanced_enabled |-> TRUE,
          retrieval_strategy |-> "advanced_hybrid",
          query_rewrite_policy |->
              IF primary_plan.query_rewrite_policy # "disabled"
              THEN primary_plan.query_rewrite_policy
              ELSE "simple",
          reranker_variant |-> primary_plan.reranker_variant,
          use_reranking |-> TRUE]

should_run_shadow_eval_any_mode(advanced_cfg, request_id) ==
    LET sample_percent == advanced_cfg.adv_retrieval_eval_sample_percent
    IN  IF sample_percent <= 0 THEN FALSE
        ELSE IF sample_percent >= 100 THEN TRUE
        ELSE Bucket(SeedOf(request_id)) < sample_percent

should_run_shadow_eval(advanced_cfg, request_id) ==
    IF advanced_cfg.adv_retrieval_eval_mode # "shadow" THEN FALSE
    ELSE LET sample_percent == advanced_cfg.adv_retrieval_eval_sample_percent
         IN  IF sample_percent <= 0 THEN FALSE
             ELSE IF sample_percent >= 100 THEN TRUE
             ELSE Bucket(SeedOf(request_id)) < sample_percent

\* ------------------------------------------------------- rollout decision
rollout_enabled_inclusive(request_id, rollout_percent) ==
    IF rollout_percent <= 0 THEN FALSE
    ELSE IF rollout_percent >= 100 THEN TRUE
    ELSE Bucket(SeedOf(request_id)) <= rollout_percent

rollout_enabled(request_id, rollout_percent) ==
    IF rollout_percent <= 0 THEN FALSE
    ELSE IF rollout_percent >= 100 THEN TRUE
    ELSE Bucket(SeedOf(request_id)) < rollout_percent

\* ------------------------------------------------ Python values and strings
\* A value of a setting or of a payload key: None, a bool, an int, or a
\* string. A string is its letters in lower case and without the surrounding
\* blanks (word), with two marks: some letter is upper case, blanks surround.
NoneVal == [t |-> "none"]
BoolVal(b) == [t |-> "bool", v |-> b]
IntVal(n) == [t |-> "int", v |-> n]
Str(word, upper, pad) == [t |-> "str", word |-> word, upper |-> upper, pad |-> pad]
Plain(word) == Str(word, FALSE, FALSE)
Mixed(word) == Str(word, TRUE, TRUE)

\* The key is not in the payload.
Absent == [t |-> "absent"]

\* payload.get(key): None for a missing key.
PayloadGet(x) == IF x.t = "absent" THEN NoneVal ELSE x

\* Truth value of a Python object.
Truthy(x) ==
    CASE x.t = "none" -> FALSE
      [] x.t = "bool" -> x.v
      [] x.t = "int" -> x.v # 0
      [] x.t = "str" -> x.word # "" \/ x.pad

\* str.strip() and str.lower()
strip(x) == [x EXCEPT !.pad = FALSE]
lower(x) == [x EXCEPT !.upper = FALSE]

\* `x or ""`
OrEmpty(x) == IF Truthy(x) THEN x ELSE Plain("")

\* The decimal numerals the model uses.
NumeralValue(word) ==
    CASE word = "50" -> 50
      [] word = "250" -> 250
      [] OTHER -> 0 - 1

IsNumeral(word) == word \in {"50", "250"}

\* int(x): the value, or the exception raised.
IntOf(x) ==
    CASE x.t = "none" -> [exc |-> "TypeError", v |-> 0]
      [] x.t = "bool" -> [exc |-> "none", v |-> IF x.v THEN 1 ELSE 0]
      [] x.t = "int" -> [exc |-> "none", v |-> x.v]
      [] x.t = "str" -> IF IsNumeral(x.word) /\ ~x.upper
                        THEN [exc |-> "none", v |-> NumeralValue(x.word)]
                        ELSE [exc |-> "ValueError", v |-> 0]

Max(a, b) == IF a >= b THEN a ELSE b

\* --------------------------------------- resolve_advanced_retrieval_config
ALLOWED_RETRIEVAL_STRATEGIES == {"baseline", "advanced_hybrid", "advanced_hybrid_rerank"}
ALLOWED_RERANKER_VARIANTS == {"rrf_simple", "cross_encoder"}
ALLOWED_QUERY_REWRITE_POLICIES == {"disabled", "simple", "llm"}
ALLOWED_EVAL_MODES == {"off", "shadow"}

request_override_always_allowed(settings) == TRUE

\* `if settings.adv_retrieval_allow_request_override:`
request_override_allowed(settings) == settings.adv_retrieval_allow_request_override

normalize_enum(raw_value, allowed_values, fallback) ==
    LET value == lower(strip(OrEmpty(raw_value)))
    IN  IF ~value.upper /\ ~value.pad /\ value.word \in allowed_values
        THEN value.word
        ELSE fallback

\* The exception that leaves _clamp_rollout_percent, "none" when it returns.
clamp_rollout_percent_exc(raw_percent) ==
    IF IntOf(raw_percent).exc \in {"none", "TypeError", "ValueError"}
    THEN "none"
    ELSE IntOf(raw_percent).exc

clamp_rollout_percent_unbounded(raw_percent) ==
    LET parsed == IntOf(raw_percent)
    IN  IF parsed.exc \in {"TypeError", "ValueError"} THEN 0
        ELSE Max(0, parsed.v)

clamp_rollout_percent(raw_percent) ==
    LET parsed == IntOf(raw_percent)
    IN  IF parsed.exc \in {"TypeError", "ValueError"} THEN 0
        ELSE Max(0, IF 100 <= parsed.v THEN 100 ELSE parsed.v)

\* request_payload = None, or a payload without the override keys.
NoPayload ==
    [adv_retrieval_enabled |-> Absent,
     retrieval_strategy |-> Absent,
     reranker_variant |-> Absent,
     query_rewrite_policy |-> Absent,
     adv_retrieval_eval_mode |-> Absent,
     adv_retrieval_eval_sample_percent |-> Absent]

resolve_advanced_retrieval_config_rollout_ignored(settings, request_payload, request_id) ==
    LET payload == request_payload
        allow == request_override_allowed(settings)
        over_enabled == allow /\ payload.adv_retrieval_enabled.t # "absent"
        over_strategy == allow /\ Truthy(PayloadGet(payload.retrieval_strategy))
        over_reranker == allow /\ Truthy(PayloadGet(payload.reranker_variant))
        over_policy == allow /\ Truthy(PayloadGet(payload.query_rewrite_policy))
        raw_enabled == IF over_enabled
                       THEN Truthy(PayloadGet(payload.adv_retrieval_enabled))
                       ELSE Truthy(settings.adv_retrieval_enabled)
        raw_strategy == IF over_strategy THEN payload.retrieval_strategy
                        ELSE settings.retrieval_strategy
        raw_reranker == IF over_reranker THEN payload.reranker_variant
                        ELSE settings.reranker_variant
        raw_rewrite_policy == IF over_policy THEN payload.query_rewrite_policy
                              ELSE settings.query_rewrite_policy
        rollout_percent == clamp_rollout_percent(settings.adv_retrieval_rollout_percent)
    IN  [enabled |-> raw_enabled,
         retrieval_strategy |->
             normalize_enum(raw_strategy, ALLOWED_RETRIEVAL_STRATEGIES, "baseline"),
         reranker_variant |->
             normalize_enum(raw_reranker, ALLOWED_RERANKER_VARIANTS, "rrf_simple"),
         query_rewrite_policy |->
             normalize_enum(raw_rewrite_policy, ALLOWED_QUERY_REWRITE_POLICIES, "disabled"),
         rollout_percent |-> rollout_percent,
         from_request_override |->
             over_enabled \/ over_strategy \/ over_reranker \/ over_policy]

resolve_advanced_retrieval_config(settings, request_payload, request_id) ==
    LET payload == request_payload
        allow == request_override_allowed(settings)
        over_enabled == allow /\ payload.adv_retrieval_enabled.t # "absent"
        over_strategy == allow /\ Truthy(PayloadGet(payload.retrieval_strategy))
        over_reranker == allow /\ Truthy(PayloadGet(payload.reranker_variant))
        over_policy == allow /\ Truthy(PayloadGet(payload.query_rewrite_policy))
        raw_enabled == IF over_enabled
                       THEN Truthy(PayloadGet(payload.adv_retrieval_enabled))
                       ELSE Truthy(settings.adv_retrieval_enabled)
        raw_strategy == IF over_strategy THEN payload.retrieval_strategy
                        ELSE settings.retrieval_strategy
        raw_reranker == IF over_reranker THEN payload.reranker_variant
                        ELSE settings.reranker_variant
        raw_rewrite_policy == IF over_policy THEN payload.query_rewrite_policy
                              ELSE settings.query_rewrite_policy
        rollout_percent == clamp_rollout_percent(settings.adv_retrieval_rollout_percent)
    IN  [enabled |-> raw_enabled /\ rollout_enabled(request_id, rollout_percent),
         retrieval_strategy |->
             normalize_enum(raw_strategy, ALLOWED_RETRIEVAL_STRATEGIES, "baseline"),
         reranker_variant |->
             normalize_enum(raw_reranker, ALLOWED_RERANKER_VARIANTS, "rrf_simple"),
         query_rewrite_policy |->
             normalize_enum(raw_rewrite_policy, ALLOWED_QUERY_REWRITE_POLICIES, "disabled"),
         rollout_percent |-> rollout_percent,
         from_request_override |->
             over_enabled \/ over_strategy \/ over_reranker \/ over_policy]

\* The evaluation fields of the config: the process values, overwritten by
\* the payload's when request overrides are allowed; the mode normalized
\* against its allow-list with fallback "off", the percent clamped to 0..100.
resolve_eval_fields(settings, request_payload) ==
    LET payload == request_payload
        allow == request_override_allowed(settings)
        over_mode == allow /\ payload.adv_retrieval_eval_mode.t # "absent"
        over_percent == allow /\ payload.adv_retrieval_eval_sample_percent.t # "absent"
        raw_mode == IF over_mode THEN payload.adv_retrieval_eval_mode
                    ELSE settings.adv_retrieval_eval_mode
        raw_percent == IF over_percent THEN payload.adv_retrieval_eval_sample_percent
                       ELSE settings.adv_retrieval_eval_sample_percent
    IN  [adv_retrieval_eval_mode |-> normalize_enum(raw_mode, ALLOWED_EVAL_MODES, "off"),
         adv_retrieval_eval_sample_percent |-> clamp_rollout_percent(raw_percent),
         used_request_override |-> over_mode \/ over_percent]

\* The config with its evaluation fields.
AdvancedRetrievalConfig(settings, request_payload, request_id) ==
    LET cfg == resolve_advanced_retrieval_config(settings, request_payload, request_id)
        ev == resolve_eval_fields(settings, request_payload)
    IN  [enabled |-> cfg.enabled,
         retrieval_strategy |-> cfg.retrieval_strategy,
         reranker_variant |-> cfg.reranker_variant,
         query_rewrite_policy |-> cfg.query_rewrite_policy,
         rollout_percent |-> cfg.rollout_percent,
         from_request_override |-> cfg.from_request_override \/ ev.used_request_override,
         adv_retrieval_eval_mode |-> ev.adv_retrieval_eval_mode,
         adv_retrieval_eval_sample_percent |-> ev.adv_retrieval_eval_sample_percent]

\* ------------------------------------------------------- error classifying
chat_error_code(e, stage) ==
    IF stage = "generate" THEN "llm_stream_error"
    ELSE IF e.msg = "embed" THEN "embeddings_unavailable"
    ELSE IF e.msg = "timeout" THEN "db_timeout"
    ELSE IF e.dep THEN "dependency_unavailable"
    ELSE "chat_pipeline_error"

dependency_from_error_code(error_code) ==
    IF error_code = "llm_stream_error" THEN "llm"
    ELSE IF error_code = "embeddings_unavailable" THEN "embeddings"
    ELSE IF error_code = "db_timeout" THEN "db"
    ELSE "chat"

\* --------------------------------------------------- request correlation id
\* The concurrent units of one request: the task that drives the primary
\* event stream, the detached shadow task, and the worker thread that
\* asyncio.to_thread runs the shadow retrieval on.
Primary(r) == <<r, "primary">>
Shadow(r) == <<r, "shadow">>
Thread(r) == <<r, "thread">>
Units == {Primary(r) : r \in Reqs} \cup {Shadow(r) : r \in Reqs} \cup {Thread(r) : r \in Reqs}

\* _request_id_ctx is a ContextVar: every task and every to_thread call has a
\* context of its own, so there is one cell per unit.
Cells == Units

CtxOf(u) == u

get_request_id(c, u) == c[CtxOf(u)]

set_request_id(c, u, request_id) == [c EXCEPT ![CtxOf(u)] = request_id]

\* Faulty variant of reset_request_id: the value set on entry is left in place.
reset_request_id_noop(c, u, tok) == c

reset_request_id(c, u, tok) == [c EXCEPT ![CtxOf(u)] = tok]

\* ------------------------------------------------------------------ state
VARIABLES
    input,              \* per request: payload, resolved config, what each step will do
    pc,                 \* per request: position of _event_stream
    stage_timings_ms,   \* per request: the keys of the timing map, in insertion order
    failed_stage_ref,   \* per request: failed_stage_ref[0], "None" when unset
    exc,                \* per request: the exception in flight, <<>> when none
    tokens_out,         \* per request: token deltas yielded so far
    events,             \* per request: the SSE events delivered to the client
    summaries,          \* per request: the chat_pipeline_summary log events
    provider_failures,  \* per request: inc_provider_failure calls (dependency, error_code)
    trace,              \* per request: the steps started and finished, in order
    lifecycle,          \* _chat_stream_lifecycle_total
    ctx,                \* value of _request_id_ctx in each context
    token,              \* per unit: the Token set_request_id returned (its old value)
    seen,               \* per unit: the ids get_request_id returned while the unit ran
    spc,                \* per request: position of run_shadow_retrieval
    thr,                \* per request: the shadow retrieval on its worker thread
    shadow_retrievals,  \* per request: times the shadow retrieval was started
    evals,              \* per request: the retrieval_shadow_eval log events
    metric_obs,         \* per request: observe_retrieval_shadow_eval calls
    shadow_outcome      \* per request: how the awaited shadow retrieval ended

pipeVars ==
    <<input, pc, stage_timings_ms, failed_stage_ref, exc, tokens_out, events, summaries,
      provider_failures, trace, lifecycle, ctx, token, seen, spc, thr, shadow_retrievals,
      evals, metric_obs, shadow_outcome>>

primaryVars ==
    <<pc, stage_timings_ms, failed_stage_ref, exc, tokens_out, events, summaries,
      provider_failures, trace, lifecycle>>

shadowVars == <<spc, thr, shadow_retrievals, evals, metric_obs, shadow_outcome>>

\* retry_with_backoff: one call.
VARIABLES
    rw_attempts,      \* the `attempts` argument; 0 stands for None
    rw_pc,            \* "call", "sleep", "returned", "raised"
    rw_attempt,       \* the loop variable `attempt`
    rw_calls,         \* invocations of func so far
    rw_slept,         \* the delays slept so far
    rw_last_exc,      \* last_exc, <<>> for None
    rw_raised,        \* the exception that left retry_with_backoff, <<>> when none
    rw_failures       \* every exception func raised, in order

retryVars ==
    <<rw_attempts, rw_pc, rw_attempt, rw_calls, rw_slept, rw_last_exc, rw_raised, rw_failures>>

\* resolve_retrieval_plan: one call.
VARIABLES
    plan_cfg,       \* the resolved AdvancedRetrievalConfig
    plan_request,   \* the client's use_reranking
    plan_out,       \* the RetrievalPlan returned, <<>> before the call
    plan_shadow,    \* the shadow plan of plan_out, <<>> before the call
    plan_shadow2    \* the shadow plan of plan_shadow, <<>> before the call

planVars == <<plan_cfg, plan_request, plan_out, plan_shadow, plan_shadow2>>

\* _rollout_enabled and should_run_shadow_eval: one call each.
VARIABLES
    ro_seed,        \* the request id
    ro_percent,     \* rollout_percent, or the config's eval sample percent
    ro_mode,        \* the config's adv_retrieval_eval_mode
    ro_rollout,     \* what _rollout_enabled returned, <<>> before the call
    ro_shadow       \* what should_run_shadow_eval returned, <<>> before the call

rolloutVars == <<ro_seed, ro_percent, ro_mode, ro_rollout, ro_shadow>>

\* resolve_advanced_retrieval_config, then resolve_retrieval_plan on its result.
VARIABLES
    cfg_settings,   \* the process settings
    cfg_payload,    \* the request payload
    cfg_id,         \* the request id
    cfg_out,        \* the config returned, <<>> before the call
    cfg_exc,        \* the exception the call raised, "none" when it returned
    cfg_plan        \* the plan made from the config and what the client asked

cfgVars == <<cfg_settings, cfg_payload, cfg_id, cfg_out, cfg_exc, cfg_plan>>

\* The reformulations of a query.
VARIABLES
    rf_query,           \* the query, a sequence of characters
    rf_use_reranking,   \* the plan's use_reranking
    rf_policy,          \* the plan's query_rewrite_policy
    rf_out,             \* <<what get_reformulations returned>>, <<>> before
    rf_topk             \* <<the reformulations retrieve_top_k fans out to>>, <<>> before

reformVars == <<rf_query, rf_use_reranking, rf_policy, rf_out, rf_topk>>

\* Reciprocal-rank fusion of the per-reformulation result lists.
VARIABLES
    fu_results,     \* results_by_query: one ranked list of chunk ids per reformulation
    fu_scores,      \* the `scores` dict of _rrf_fuse, <<>> before the call
    fu_fused,       \* <<what _rrf_fuse returned>>, <<>> before the call
    fu_out          \* <<k, what retrieve_top_k returned>>, <<>> before

fuseVars == <<fu_results, fu_scores, fu_fused, fu_out>>

\* emit_retrieval_shadow_eval on two chunk lists, and build_context on the
\* primary's.
VARIABLES
    ev_primary,     \* primary_chunks
    ev_shadow,      \* shadow_chunks
    ev_budget,      \* the character budget: max_chars and chat_context_max_chars
    ev_out,         \* <<the metrics the evaluation computed>>, <<>> before
    ev_context      \* <<the blocks build_context joined>>, <<>> before

evVars == <<ev_primary, ev_shadow, ev_budget, ev_out, ev_context>>

\* The metrics aggregator of app/core/metrics.py, shared by every thread of
\* the process.
VARIABLES
    mx_lock,        \* _lock: the thread that holds it, "free" when none does
    mx_series,      \* the shadow-eval counter and the three histogram counts, by label key
    mx_pc,          \* per thread: "idle", "load", "store", "read", "release"
    mx_at,          \* per thread: the series its next step is at
    mx_key,         \* per observer: metric_key of the observation in progress
    mx_tmp,         \* per observer: the value loaded for the += in progress
    mx_left,        \* per thread: the calls it has still to make
    mx_done,        \* by label key: the calls of observe_retrieval_shadow_eval that returned
    mx_snap,        \* the lines the render in progress has appended, by series
    mx_renders      \* the texts render_prometheus_text returned

mxVars ==
    <<mx_lock, mx_series, mx_pc, mx_at, mx_key, mx_tmp, mx_left, mx_done, mx_snap, mx_renders>>

\* The process settings and the requests that resolved a config from them.
VARIABLES
    rs_settings,    \* app.config.settings
    rs_calls        \* the calls of resolve_advanced_retrieval_config made so far

rsVars == <<rs_settings, rs_calls>>

\* One call of TopKRetriever.retrieve: the retry_with_backoff around
\* _retrieve_once and the one inside embed_query.
VARIABLES
    nt_attempts,    \* dependency_retry_attempts()
    nt_query,       \* the query argument
    nt_pc,          \* where the call is
    nt_outer,       \* attempt of the retry around _retrieve_once
    nt_inner,       \* attempt of the retry inside embed_query
    nt_embed_calls, \* invocations of self._impl.embed_query
    nt_query_calls, \* executions of the similarity SELECT
    nt_exc,         \* <<>> or the exception leaving _retrieve_once
    nt_raised,      \* <<>> or the exception leaving retrieve
    nt_retried      \* the origins of the exceptions the outer retry slept on

ntVars ==
    <<nt_attempts, nt_query, nt_pc, nt_outer, nt_inner, nt_embed_calls,
      nt_query_calls, nt_exc, nt_raised, nt_retried>>

\* One call of retrieve_top_k.
VARIABLES
    tk_query,           \* the query, a sequence of characters
    tk_k,               \* k
    tk_use_reranking,   \* use_reranking
    tk_per_query_k,     \* the per_query_k argument: <<>> for None, else <<n>>
    tk_pc,              \* where the call is
    tk_reformulations,  \* the local `reformulations`
    tk_fetch,           \* the local per_query_k after line 74
    tk_issued,          \* the retrievals issued so far, with what they returned
    tk_results,         \* results_by_query
    tk_out              \* <<what retrieve_top_k returned>>, <<>> before

tkVars ==
    <<tk_query, tk_k, tk_use_reranking, tk_per_query_k, tk_pc, tk_reformulations,
      tk_fetch, tk_issued, tk_results, tk_out>>

callVars == <<ntVars, tkVars>>

auxVars == <<evVars, mxVars, rsVars, callVars>>

\* The groups of auxVars an action of one of them leaves alone.
notEval == <<mxVars, rsVars, callVars>>
notMetrics == <<evVars, rsVars, callVars>>
notResolve == <<evVars, mxVars, callVars>>
notNest == <<evVars, mxVars, rsVars, tkVars>>
notTopK == <<evVars, mxVars, rsVars, ntVars>>

\* The pure functions of the planner and the retriever.
fnVars == <<rolloutVars, cfgVars, reformVars, fuseVars, auxVars>>

\* Everything but the groups of auxVars.
coreVars == <<pipeVars, retryVars, planVars, rolloutVars, cfgVars, reformVars, fuseVars>>

vars == <<pipeVars, retryVars, planVars, fnVars>>

\* ----------------------------------------------------------------- inputs
Fault(stage, e) == [stage |-> stage, exc |-> e]

Faults == {Fault(s, e) : s \in FaultStages, e \in ExcKinds}

PlanOf(i) == resolve_retrieval_plan(i.use_reranking, i.cfg)

\* A fault names a step the run reaches; the token count is that of a run
\* that reaches the generate stage.
InputOK(i) ==
    /\ i.fault.stage = "none" => i.fault.exc = NoFaultExc
    /\ i.query_empty => i.fault.stage \in {"none", "context"}
    /\ i.fault.stage = "rerank" => PlanOf(i).use_reranking
    /\ i.tokens > 0 => ~i.query_empty /\ i.fault.stage \in {"none", "generate"}

PipelineConfigs ==
    {c \in Configs :
        /\ c.retrieval_strategy \in {"baseline", "advanced_hybrid"}
        /\ c.reranker_variant = "rrf_simple"
        /\ c.query_rewrite_policy = "simple"
        /\ c.adv_retrieval_eval_sample_percent = 100}

Inputs ==
    {i \in [present : {TRUE},
            query_empty : BOOLEAN,
            cfg : PipelineConfigs,
            use_reranking : BOOLEAN,
            fault : Faults,
            tokens : 0..MaxTokens] : InputOK(i)}

AbsentInput ==
    [present |-> FALSE,
     query_empty |-> TRUE,
     cfg |-> CHOOSE c \in PipelineConfigs :
                 ~c.enabled /\ c.retrieval_strategy = "baseline"
                 /\ c.adv_retrieval_eval_mode = "off",
     use_reranking |-> FALSE,
     fault |-> Fault("none", NoFaultExc),
     tokens |-> 0]

\* Two concurrent requests: one exception kind per failing step, and a full
\* LLM stream whenever the generate stage is reached.
ConcInputs ==
    {i \in Inputs :
        /\ i.cfg.enabled = (i.cfg.retrieval_strategy = "advanced_hybrid")
        /\ ~i.use_reranking
        /\ i.fault.stage \in {"none", "retrieve", "generate"}
        /\ i.fault.exc \in {NoFaultExc, [dep |-> TRUE, retryable |-> TRUE, msg |-> "other"]}
        /\ i.fault.stage # "none" => i.fault.exc.dep
        /\ i.tokens = IF ~i.query_empty /\ i.fault.stage \in {"none", "generate"}
                      THEN MaxTokens ELSE 0}

PipeInitRest ==
    /\ pc = [r \in Reqs |-> "init"]
    /\ stage_timings_ms = [r \in Reqs |-> <<>>]
    /\ failed_stage_ref = [r \in Reqs |-> "None"]
    /\ exc = [r \in Reqs |-> <<>>]
    /\ tokens_out = [r \in Reqs |-> 0]
    /\ events = [r \in Reqs |-> <<>>]
    /\ summaries = [r \in Reqs |-> <<>>]
    /\ provider_failures = [r \in Reqs |-> <<>>]
    /\ trace = [r \in Reqs |-> <<>>]
    /\ lifecycle = [started |-> 0, completed |-> 0, failed |-> 0]
    /\ ctx = [c \in Cells |-> DefaultRequestId]
    /\ token = [u \in Units |-> DefaultRequestId]
    /\ seen = [u \in Units |-> {}]
    /\ spc = [r \in Reqs |-> "idle"]
    /\ thr = [r \in Reqs |-> "idle"]
    /\ shadow_retrievals = [r \in Reqs |-> 0]
    /\ evals = [r \in Reqs |-> <<>>]
    /\ metric_obs = [r \in Reqs |-> <<>>]
    /\ shadow_outcome = [r \in Reqs |-> "none"]

\* ------------------------------------------------------------ SSE events
Event(ev, keys, flag, msg) == [ev |-> ev, keys |-> keys, flag |-> flag, msg |-> msg]

NoQueryEvent == Event("error", {"message"}, "-", "no_query")
ReformulationsEvent == Event("reformulations", {"items"}, "-", "-")
TokenEvent == Event("token", {"delta"}, "-", "-")
CitationsEvent == Event("citations", {"items"}, "-", "-")
DoneEmptyEvent == Event("done", {}, "-", "-")
DoneOkEvent == Event("done", {"ok"}, "true", "-")
DoneFailEvent == Event("done", {"ok"}, "false", "-")

\* Faulty variant of ErrorEvent: every failure reported with the three fields.
ErrorEventAlwaysCoded(e) ==
    Event("error", {"message", "retryable", "code"},
          IF e.retryable THEN "retryable" ELSE "permanent", e.msg)

\* The error signal of the failure handler (chat.py 496-506).
ErrorEvent(e) ==
    IF e.dep
    THEN Event("error", {"message", "retryable", "code"},
               IF e.retryable THEN "retryable" ELSE "permanent", e.msg)
    ELSE Event("error", {"message"}, "-", e.msg)

\* emit_chat_pipeline_summary: the payload of the chat_pipeline_summary event.
Summary(status, timings, failed_stage, error_code) ==
    [status |-> status, stages_ms |-> timings,
     failed_stage |-> failed_stage, error_code |-> error_code]

\* ---------------------------------------------------- the primary stream
SyncStages == {"rerank", "retrieve", "build_context"}

\* Faulty variant of AfterStage: the shadow launch follows the rerank stage.
AfterStageEager(stage) ==
    CASE stage = "rerank" -> "shadow_launch"
      [] stage = "retrieve" -> "shadow_launch"
      [] stage = "build_context" -> "generate"

AfterStage(stage) ==
    CASE stage = "rerank" -> "retrieve"
      [] stage = "retrieve" -> "shadow_launch"
      [] stage = "build_context" -> "generate"

\* get_request_id as the log formatter reads it for a record of unit u.
Observe(u) == seen' = [seen EXCEPT ![u] = @ \cup {get_request_id(ctx, u)}]

\* Entry to the first suspension: set_request_id, the started counter, and
\* _build_chat_execution_context, which may raise before any stage runs.
Start(r) ==
    /\ input[r].present
    /\ pc[r] = "init"
    /\ token' = [token EXCEPT ![Primary(r)] = get_request_id(ctx, Primary(r))]
    /\ ctx' = set_request_id(ctx, Primary(r), r)
    /\ seen' = [seen EXCEPT ![Primary(r)] = @ \cup {get_request_id(ctx', Primary(r))}]
    /\ lifecycle' = [lifecycle EXCEPT !.started = @ + 1]
    /\ IF input[r].fault.stage = "context"
       THEN /\ exc' = [exc EXCEPT ![r] = <<input[r].fault.exc>>]
            /\ pc' = [pc EXCEPT ![r] = "handler"]
            /\ UNCHANGED events
       ELSE IF input[r].query_empty
       THEN /\ events' = [events EXCEPT ![r] = Append(@, NoQueryEvent)]
            /\ pc' = [pc EXCEPT ![r] = "noquery"]
            /\ UNCHANGED exc
       ELSE /\ pc' = [pc EXCEPT ![r] =
                        IF PlanOf(input[r]).use_reranking THEN "rerank" ELSE "retrieve"]
            /\ UNCHANGED <<exc, events>>
    /\ UNCHANGED <<input, stage_timings_ms, failed_stage_ref, tokens_out, summaries,
                   provider_failures, trace>>
    /\ UNCHANGED shadowVars
    /\ UNCHANGED <<retryVars, planVars, fnVars>>

\* The finally clause of _event_stream.
StreamFinally(r) == ctx' = reset_request_id(ctx, Primary(r), token[Primary(r)])

\* No user query: the second yield, then return.
YieldDoneEmpty(r) ==
    /\ pc[r] = "noquery"
    /\ events' = [events EXCEPT ![r] = Append(@, DoneEmptyEvent)]
    /\ Observe(Primary(r))
    /\ StreamFinally(r)
    /\ pc' = [pc EXCEPT ![r] = "done"]
    /\ UNCHANGED <<input, stage_timings_ms, failed_stage_ref, exc, tokens_out, summaries,
                   provider_failures, trace, lifecycle, token>>
    /\ UNCHANGED shadowVars
    /\ UNCHANGED <<retryVars, planVars, fnVars>>

\* run_stage around a body that returns: rerank, retrieve or build_context.
RunStageOk(r) ==
    /\ pc[r] \in SyncStages
    /\ input[r].fault.stage # pc[r]
    /\ stage_timings_ms' = [stage_timings_ms EXCEPT ![r] = Append(@, pc[r])]
    /\ trace' = [trace EXCEPT ![r] = @ \o << <<pc[r], "start">>, <<pc[r], "ok">> >>]
    /\ events' = [events EXCEPT ![r] =
                    IF pc[r] = "rerank" THEN Append(@, ReformulationsEvent) ELSE @]
    /\ Observe(Primary(r))
    /\ pc' = [pc EXCEPT ![r] = AfterStage(pc[r])]
    /\ UNCHANGED <<input, failed_stage_ref, exc, tokens_out, summaries, provider_failures,
                   lifecycle, ctx, token>>
    /\ UNCHANGED shadowVars
    /\ UNCHANGED <<retryVars, planVars, fnVars>>

\* Faulty variant of RunStageFail: the duration of the failed stage is stored
\* in the timing map as well.
RunStageFailTimed(r) ==
    /\ pc[r] \in SyncStages
    /\ input[r].fault.stage = pc[r]
    /\ failed_stage_ref' = [failed_stage_ref EXCEPT ![r] = pc[r]]
    /\ stage_timings_ms' = [stage_timings_ms EXCEPT ![r] = Append(@, pc[r])]
    /\ exc' = [exc EXCEPT ![r] = <<input[r].fault.exc>>]
    /\ trace' = [trace EXCEPT ![r] = @ \o << <<pc[r], "start">>, <<pc[r], "fail">> >>]
    /\ Observe(Primary(r))
    /\ pc' = [pc EXCEPT ![r] = "handler"]
    /\ UNCHANGED <<input, tokens_out, events, summaries, provider_failures,
                   lifecycle, ctx, token>>
    /\ UNCHANGED shadowVars
    /\ UNCHANGED <<retryVars, planVars, fnVars>>

\* run_stage around a body that raises: the stage is named, nothing is timed.
RunStageFail(r) ==
    /\ pc[r] \in SyncStages
    /\ input[r].fault.stage = pc[r]
    /\ failed_stage_ref' = [failed_stage_ref EXCEPT ![r] = pc[r]]
    /\ exc' = [exc EXCEPT ![r] = <<input[r].fault.exc>>]
    /\ trace' = [trace EXCEPT ![r] = @ \o << <<pc[r], "start">>, <<pc[r], "fail">> >>]
    /\ Observe(Primary(r))
    /\ pc' = [pc EXCEPT ![r] = "handler"]
    /\ UNCHANGED <<input, stage_timings_ms, tokens_out, events, summaries, provider_failures,
                   lifecycle, ctx, token>>
    /\ UNCHANGED shadowVars
    /\ UNCHANGED <<retryVars, planVars, fnVars>>

\* should_run_shadow_eval is true: asyncio.create_task schedules the shadow
\* run in a copy of the current context; the stream goes on without it.
ShadowLaunch(r) ==
    /\ pc[r] = "shadow_launch"
    /\ should_run_shadow_eval(input[r].cfg, r)
    /\ spc' = [spc EXCEPT ![r] = "scheduled"]
    /\ ctx' = [ctx EXCEPT ![CtxOf(Shadow(r))] = get_request_id(ctx, Primary(r))]
    /\ trace' = [trace EXCEPT ![r] = Append(@, <<"shadow", "launch">>)]
    /\ Observe(Primary(r))
    /\ pc' = [pc EXCEPT ![r] = "build_context"]
    /\ UNCHANGED <<input, stage_timings_ms, failed_stage_ref, exc, tokens_out, events,
                   summaries, provider_failures, lifecycle, token>>
    /\ UNCHANGED <<thr, shadow_retrievals, evals, metric_obs, shadow_outcome>>
    /\ UNCHANGED <<retryVars, planVars, fnVars>>

\* should_run_shadow_eval is false: no shadow task.
ShadowSkip(r) ==
    /\ pc[r] = "shadow_launch"
    /\ ~should_run_shadow_eval(input[r].cfg, r)
    /\ pc' = [pc EXCEPT ![r] = "build_context"]
    /\ UNCHANGED <<input, stage_timings_ms, failed_stage_ref, exc, tokens_out, events,
                   summaries, provider_failures, trace, lifecycle, ctx, token, seen>>
    /\ UNCHANGED shadowVars
    /\ UNCHANGED <<retryVars, planVars, fnVars>>

\* The generate stage is entered; the LLM stream is awaited.
GenerateStart(r) ==
    /\ pc[r] = "generate"
    /\ trace' = [trace EXCEPT ![r] = Append(@, <<"generate", "start">>)]
    /\ Observe(Primary(r))
    /\ pc' = [pc EXCEPT ![r] = "streaming"]
    /\ UNCHANGED <<input, stage_timings_ms, failed_stage_ref, exc, tokens_out, events,
                   summaries, provider_failures, lifecycle, ctx, token>>
    /\ UNCHANGED shadowVars
    /\ UNCHANGED <<retryVars, planVars, fnVars>>

\* One text delta of the LLM stream is yielded as a token event.
GenerateToken(r) ==
    /\ pc[r] = "streaming"
    /\ tokens_out[r] < input[r].tokens
    /\ tokens_out' = [tokens_out EXCEPT ![r] = @ + 1]
    /\ events' = [events EXCEPT ![r] = Append(@, TokenEvent)]
    /\ Observe(Primary(r))
    /\ UNCHANGED <<input, pc, stage_timings_ms, failed_stage_ref, exc, summaries,
                   provider_failures, trace, lifecycle, ctx, token>>
    /\ UNCHANGED shadowVars
    /\ UNCHANGED <<retryVars, planVars, fnVars>>

\* The LLM stream raises.
GenerateFail(r) ==
    /\ pc[r] = "streaming"
    /\ tokens_out[r] = input[r].tokens
    /\ input[r].fault.stage = "generate"
    /\ failed_stage_ref' = [failed_stage_ref EXCEPT ![r] = "generate"]
    /\ exc' = [exc EXCEPT ![r] = <<input[r].fault.exc>>]
    /\ trace' = [trace EXCEPT ![r] = Append(@, <<"generate", "fail">>)]
    /\ Observe(Primary(r))
    /\ pc' = [pc EXCEPT ![r] = "handler"]
    /\ UNCHANGED <<input, stage_timings_ms, tokens_out, events, summaries, provider_failures,
                   lifecycle, ctx, token>>
    /\ UNCHANGED shadowVars
    /\ UNCHANGED <<retryVars, planVars, fnVars>>

\* The LLM stream ends: the stage is timed and the citations are yielded.
GenerateOk(r) ==
    /\ pc[r] = "streaming"
    /\ tokens_out[r] = input[r].tokens
    /\ input[r].fault.stage # "generate"
    /\ stage_timings_ms' = [stage_timings_ms EXCEPT ![r] = Append(@, "generate")]
    /\ trace' = [trace EXCEPT ![r] = Append(@, <<"generate", "ok">>)]
    /\ events' = [events EXCEPT ![r] = Append(@, CitationsEvent)]
    /\ Observe(Primary(r))
    /\ pc' = [pc EXCEPT ![r] = "done_ok"]
    /\ UNCHANGED <<input, failed_stage_ref, exc, tokens_out, summaries, provider_failures,
                   lifecycle, ctx, token>>
    /\ UNCHANGED shadowVars
    /\ UNCHANGED <<retryVars, planVars, fnVars>>

YieldDoneOk(r) ==
    /\ pc[r] = "done_ok"
    /\ events' = [events EXCEPT ![r] = Append(@, DoneOkEvent)]
    /\ Observe(Primary(r))
    /\ pc' = [pc EXCEPT ![r] = "summary_ok"]
    /\ UNCHANGED <<input, stage_timings_ms, failed_stage_ref, exc, tokens_out, summaries,
                   provider_failures, trace, lifecycle, ctx, token>>
    /\ UNCHANGED shadowVars
    /\ UNCHANGED <<retryVars, planVars, fnVars>>

\* After the last yield: the completed counter, the ok summary, finally.
SummaryOk(r) ==
    /\ pc[r] = "summary_ok"
    /\ lifecycle' = [lifecycle EXCEPT !.completed = @ + 1]
    /\ summaries' = [summaries EXCEPT ![r] =
                        Append(@, Summary("ok", stage_timings_ms[r], "None", "None"))]
    /\ Observe(Primary(r))
    /\ StreamFinally(r)
    /\ pc' = [pc EXCEPT ![r] = "done"]
    /\ UNCHANGED <<input, stage_timings_ms, failed_stage_ref, exc, tokens_out, events,
                   provider_failures, trace, token>>
    /\ UNCHANGED shadowVars
    /\ UNCHANGED <<retryVars, planVars, fnVars>>

\* except Exception: classify, count, summarise, and yield the error signal.
Handler(r) ==
    /\ pc[r] = "handler"
    /\ LET e == exc[r][1]
           failed_stage == failed_stage_ref[r]
           error_code == chat_error_code(e, failed_stage)
       IN  /\ lifecycle' = [lifecycle EXCEPT !.failed = @ + 1]
           /\ provider_failures' = [provider_failures EXCEPT ![r] =
                  Append(@, <<dependency_from_error_code(error_code), error_code>>)]
           /\ summaries' = [summaries EXCEPT ![r] =
                  Append(@, Summary("error", stage_timings_ms[r],
                                    IF failed_stage = "None" THEN "unknown" ELSE failed_stage,
                                    error_code))]
           /\ events' = [events EXCEPT ![r] = Append(@, ErrorEvent(e))]
    /\ Observe(Primary(r))
    /\ pc' = [pc EXCEPT ![r] = "err_done"]
    /\ UNCHANGED <<input, stage_timings_ms, failed_stage_ref, exc, tokens_out, trace, ctx,
                   token>>
    /\ UNCHANGED shadowVars
    /\ UNCHANGED <<retryVars, planVars, fnVars>>

YieldDoneFail(r) ==
    /\ pc[r] = "err_done"
    /\ events' = [events EXCEPT ![r] = Append(@, DoneFailEvent)]
    /\ exc' = [exc EXCEPT ![r] = <<>>]
    /\ Observe(Primary(r))
    /\ StreamFinally(r)
    /\ pc' = [pc EXCEPT ![r] = "done"]
    /\ UNCHANGED <<input, stage_timings_ms, failed_stage_ref, tokens_out, summaries,
                   provider_failures, trace, lifecycle, token>>
    /\ UNCHANGED shadowVars
    /\ UNCHANGED <<retryVars, planVars, fnVars>>

\* ------------------------------------------------------ the shadow task
\* The payload of one retrieval_shadow_eval event, and the label key of the
\* metrics observation that follows it.
EvalRecord(r, status, shadow_chunks) ==
    [status |-> status,
     shadow_chunks |-> shadow_chunks,
     primary_strategy |-> PlanOf(input[r]).retrieval_strategy,
     shadow_strategy |-> resolve_shadow_retrieval_plan(PlanOf(input[r])).retrieval_strategy]

\* emit_retrieval_shadow_eval: logger.info, then observe_retrieval_shadow_eval.
emit_retrieval_shadow_eval(r, status, shadow_chunks) ==
    /\ evals' = [evals EXCEPT ![r] = Append(@, EvalRecord(r, status, shadow_chunks))]
    /\ metric_obs' = [metric_obs EXCEPT ![r] =
                        Append(@, <<status, EvalRecord(r, status, shadow_chunks).primary_strategy,
                                    EvalRecord(r, status, shadow_chunks).shadow_strategy>>)]

\* The finally clause of run_shadow_retrieval.
ShadowFinally(r) == ctx' = reset_request_id(ctx, Shadow(r), token[Shadow(r)])

\* The task starts: set_request_id, then the retrieval is handed to a worker
\* thread (asyncio.to_thread copies the context) and awaited under wait_for.
ShadowBegin(r) ==
    /\ spc[r] = "scheduled"
    /\ token' = [token EXCEPT ![Shadow(r)] = get_request_id(ctx, Shadow(r))]
    /\ ctx' = [set_request_id(ctx, Shadow(r), r) EXCEPT ![CtxOf(Thread(r))] = r]
    /\ seen' = [seen EXCEPT ![Shadow(r)] = @ \cup {get_request_id(ctx', Shadow(r))}]
    /\ shadow_retrievals' = [shadow_retrievals EXCEPT ![r] = @ + 1]
    /\ thr' = [thr EXCEPT ![r] = "running"]
    /\ spc' = [spc EXCEPT ![r] = "waiting"]
    /\ UNCHANGED <<input, evals, metric_obs, shadow_outcome>>
    /\ UNCHANGED primaryVars
    /\ UNCHANGED <<retryVars, planVars, fnVars>>

\* The worker thread: retrieve_chunks_fn returns a chunk list; a list the
\* evaluation cannot read (a chunk whose content is not a string) is
\* "malformed".
ThreadReturn(r) ==
    /\ thr[r] = "running"
    /\ \E res \in {"returned_ok", "returned_malformed"} : thr' = [thr EXCEPT ![r] = res]
    /\ Observe(Thread(r))
    /\ UNCHANGED <<input, ctx, token, spc, shadow_retrievals, evals, metric_obs, shadow_outcome>>
    /\ UNCHANGED primaryVars
    /\ UNCHANGED <<retryVars, planVars, fnVars>>

\* The worker thread: retrieve_chunks_fn raises.
ThreadRaise(r) ==
    /\ thr[r] = "running"
    /\ thr' = [thr EXCEPT ![r] = "raised"]
    /\ Observe(Thread(r))
    /\ UNCHANGED <<input, ctx, token, spc, shadow_retrievals, evals, metric_obs, shadow_outcome>>
    /\ UNCHANGED primaryVars
    /\ UNCHANGED <<retryVars, planVars, fnVars>>

\* Faulty variant of ShadowResolveOk: the shadow retrieval is timed with
\* run_stage on the primary's timing map.
ShadowResolveOkTimed(r) ==
    /\ spc[r] = "waiting"
    /\ thr[r] = "returned_ok"
    /\ emit_retrieval_shadow_eval(r, "ok", "shadow")
    /\ shadow_outcome' = [shadow_outcome EXCEPT ![r] = "ok"]
    /\ Observe(Shadow(r))
    /\ ShadowFinally(r)
    /\ spc' = [spc EXCEPT ![r] = "done"]
    /\ stage_timings_ms' = [stage_timings_ms EXCEPT ![r] = Append(@, "shadow_retrieve")]
    /\ UNCHANGED <<input, token, thr, shadow_retrievals>>
    /\ UNCHANGED <<pc, failed_stage_ref, exc, tokens_out, events, summaries,
                   provider_failures, trace, lifecycle>>
    /\ UNCHANGED <<retryVars, planVars, fnVars>>

\* wait_for returns the chunks within the timeout: the ok evaluation.
ShadowResolveOk(r) ==
    /\ spc[r] = "waiting"
    /\ thr[r] = "returned_ok"
    /\ emit_retrieval_shadow_eval(r, "ok", "shadow")
    /\ shadow_outcome' = [shadow_outcome EXCEPT ![r] = "ok"]
    /\ Observe(Shadow(r))
    /\ ShadowFinally(r)
    /\ spc' = [spc EXCEPT ![r] = "done"]
    /\ UNCHANGED <<input, token, thr, shadow_retrievals>>
    /\ UNCHANGED primaryVars
    /\ UNCHANGED <<retryVars, planVars, fnVars>>

\* Faulty variant of ShadowFailed: the failure is logged but not evaluated.
ShadowFailedSilent(r, outcome) ==
    /\ spc[r] = "waiting"
    /\ shadow_outcome' = [shadow_outcome EXCEPT ![r] = outcome]
    /\ Observe(Shadow(r))
    /\ ShadowFinally(r)
    /\ spc' = [spc EXCEPT ![r] = "done"]
    /\ UNCHANGED <<input, token, thr, shadow_retrievals, evals, metric_obs>>
    /\ UNCHANGED primaryVars
    /\ UNCHANGED <<retryVars, planVars, fnVars>>

\* Faulty variant of ShadowFailed: the retrieval is started again.
ShadowFailedRearm(r, outcome) ==
    /\ spc[r] = "waiting"
    /\ emit_retrieval_shadow_eval(r, "error", "empty")
    /\ shadow_outcome' = [shadow_outcome EXCEPT ![r] = outcome]
    /\ Observe(Shadow(r))
    /\ ShadowFinally(r)
    /\ spc' = [spc EXCEPT ![r] = IF shadow_retrievals[r] < 2 THEN "scheduled" ELSE "done"]
    /\ UNCHANGED <<input, token, thr, shadow_retrievals>>
    /\ UNCHANGED primaryVars
    /\ UNCHANGED <<retryVars, planVars, fnVars>>

\* except Exception: retrieval_shadow_failed is logged and the evaluation is
\* emitted with status error and no shadow chunks; then finally.
ShadowFailed(r, outcome) ==
    /\ spc[r] = "waiting"
    /\ emit_retrieval_shadow_eval(r, "error", "empty")
    /\ shadow_outcome' = [shadow_outcome EXCEPT ![r] = outcome]
    /\ Observe(Shadow(r))
    /\ ShadowFinally(r)
    /\ spc' = [spc EXCEPT ![r] = "done"]
    /\ UNCHANGED <<input, token, thr, shadow_retrievals>>
    /\ UNCHANGED primaryVars
    /\ UNCHANGED <<retryVars, planVars, fnVars>>

\* The chunks came back but the ok evaluation raises while it computes its
\* metrics, before anything is logged: the handler evaluates the failure.
ShadowResolveMalformed(r) ==
    /\ thr[r] = "returned_malformed"
    /\ ShadowFailed(r, "malformed")

\* The retrieval raised on its thread; wait_for re-raises it in the task.
ShadowResolveRaise(r) ==
    /\ thr[r] = "raised"
    /\ ShadowFailed(r, "raised")

\* eval_timeout_ms expires while the retrieval is still running: wait_for
\* raises TimeoutError; the thread runs on and its result is dropped.
ShadowTimeout(r) ==
    /\ thr[r] = "running"
    /\ ShadowFailed(r, "timeout")

PipeNext ==
    \E r \in Reqs :
        \/ Start(r)
        \/ YieldDoneEmpty(r)
        \/ RunStageOk(r)
        \/ RunStageFail(r)
        \/ ShadowLaunch(r)
        \/ ShadowSkip(r)
        \/ GenerateStart(r)
        \/ GenerateToken(r)
        \/ GenerateFail(r)
        \/ GenerateOk(r)
        \/ YieldDoneOk(r)
        \/ SummaryOk(r)
        \/ Handler(r)
        \/ YieldDoneFail(r)
        \/ ShadowBegin(r)
        \/ ThreadReturn(r)
        \/ ThreadRaise(r)
        \/ ShadowResolveOk(r)
        \/ ShadowResolveMalformed(r)
        \/ ShadowResolveRaise(r)
        \/ ShadowTimeout(r)

\* One request arrives; the other never does.
PipeInit ==
    /\ input \in {f \in [Reqs -> Inputs \cup {AbsentInput}] :
                    f["r1"].present /\ f["r2"] = AbsentInput}
    /\ PipeInitRest

\* Two requests arrive.
ConcInit ==
    /\ input \in [Reqs -> ConcInputs]
    /\ PipeInitRest

\* ------------------------------------------------------ retry_with_backoff
\* What the operation raises, as is_retryable_exception tells exceptions
\* apart: the type, and the response status of an httpx.HTTPStatusError.
\* `at` is the invocation that raised it (0: built by retry_with_backoff).
Exc(type, status) == [type |-> type, status |-> status, at |-> 0]

OpExcs ==
    {Exc("httpx.HTTPStatusError", 404), Exc("httpx.HTTPStatusError", 503),
     Exc("TimeoutError", 0), Exc("ConnectionError", 0),
     Exc("httpx.TimeoutException", 0), Exc("httpx.NetworkError", 0),
     Exc("psycopg2.OperationalError", 0), Exc("psycopg2.InterfaceError", 0),
     Exc("ValueError", 0), Exc("RetryableDependencyError", 0),
     Exc("PermanentDependencyError", 0)}

\* Faulty variant of is_retryable_exception: the error retry_with_backoff
\* raises after its last attempt counts as transient too.
is_retryable_exception_dependency_error(e) ==
    IF e.type = "httpx.HTTPStatusError"
    THEN e.status >= 500
    ELSE e.type \in {"TimeoutError", "ConnectionError", "httpx.TimeoutException",
                     "httpx.NetworkError", "psycopg2.OperationalError",
                     "psycopg2.InterfaceError", "RetryableDependencyError"}

is_retryable_exception(e) ==
    IF e.type = "httpx.HTTPStatusError"
    THEN e.status >= 500
    ELSE e.type \in {"TimeoutError", "ConnectionError", "httpx.TimeoutException",
                     "httpx.NetworkError", "psycopg2.OperationalError",
                     "psycopg2.InterfaceError"}

\* dependency_retry_base_seconds() and dependency_retry_max_seconds(), in ms.
RetryBaseDelayMs == 200
RetryMaxDelayMs == 2000

RECURSIVE Pow2(_)
Pow2(n) == IF n = 0 THEN 1 ELSE 2 * Pow2(n - 1)

Min(a, b) == IF a <= b THEN a ELSE b

\* delay = min(max_delay, base_delay * 2 ** (attempt - 1)); the jitter added
\* to it, uniform in [0, 0.2 * delay], is not tracked.
BackoffDelayMs(attempt) == Min(RetryMaxDelayMs, RetryBaseDelayMs * Pow2(attempt - 1))

\* max_attempts = attempts or dependency_retry_attempts()
rw_max_attempts == IF rw_attempts = 0 THEN DefaultRetryAttempts ELSE rw_attempts

\* Faulty variant of LastAttempt: one attempt too many.
LastAttemptOffByOne(attempt, max_attempts) == attempt > max_attempts

\* `if attempt >= max_attempts: break`, which is also where range() ends.
LastAttempt(attempt, max_attempts) == attempt >= max_attempts

RetryInit ==
    /\ rw_attempts \in 0..MaxAttempts
    /\ rw_pc = "call"
    /\ rw_attempt = 1
    /\ rw_calls = 0
    /\ rw_slept = <<>>
    /\ rw_last_exc = <<>>
    /\ rw_raised = <<>>
    /\ rw_failures = <<>>

RetryIdle ==
    /\ rw_attempts = 0
    /\ rw_pc = "idle"
    /\ rw_attempt = 1
    /\ rw_calls = 0
    /\ rw_slept = <<>>
    /\ rw_last_exc = <<>>
    /\ rw_raised = <<>>
    /\ rw_failures = <<>>

\* func() returns: its value is returned at once.
RetryOpReturns ==
    /\ rw_pc = "call"
    /\ rw_calls' = rw_calls + 1
    /\ rw_pc' = "returned"
    /\ UNCHANGED <<rw_attempts, rw_attempt, rw_slept, rw_last_exc, rw_raised, rw_failures>>
    /\ UNCHANGED <<pipeVars, planVars, fnVars>>

\* Faulty variant of RetryOpRaisesPermanent: the error is retried like a
\* transient one.
RetryOpRaisesPermanentRetried ==
    /\ rw_pc = "call"
    /\ \E x \in OpExcs :
        /\ ~is_retryable_exception(x)
        /\ LET e == [x EXCEPT !.at = rw_calls + 1]
           IN  /\ rw_failures' = Append(rw_failures, e)
               /\ rw_last_exc' = <<e>>
    /\ rw_calls' = rw_calls + 1
    /\ IF LastAttempt(rw_attempt, rw_max_attempts)
       THEN /\ rw_pc' = "raised"
            /\ rw_raised' = <<Exc("RetryableDependencyError", 0)>>
       ELSE /\ rw_pc' = "sleep"
            /\ UNCHANGED rw_raised
    /\ UNCHANGED <<rw_attempts, rw_attempt, rw_slept>>
    /\ UNCHANGED <<pipeVars, planVars, fnVars>>

\* func() raises and retry_if(exc) is false: `raise`.
RetryOpRaisesPermanent ==
    /\ rw_pc = "call"
    /\ \E x \in OpExcs :
        /\ ~is_retryable_exception(x)
        /\ LET e == [x EXCEPT !.at = rw_calls + 1]
           IN  /\ rw_failures' = Append(rw_failures, e)
               /\ rw_raised' = <<e>>
    /\ rw_calls' = rw_calls + 1
    /\ rw_pc' = "raised"
    /\ UNCHANGED <<rw_attempts, rw_attempt, rw_slept, rw_last_exc>>
    /\ UNCHANGED <<pipeVars, planVars, fnVars>>

\* func() raises a retryable error before the last attempt: sleep follows.
RetryOpRaisesRetryable ==
    /\ rw_pc = "call"
    /\ ~LastAttempt(rw_attempt, rw_max_attempts)
    /\ \E x \in OpExcs :
        /\ is_retryable_exception(x)
        /\ LET e == [x EXCEPT !.at = rw_calls + 1]
           IN  /\ rw_failures' = Append(rw_failures, e)
               /\ rw_last_exc' = <<e>>
    /\ rw_calls' = rw_calls + 1
    /\ rw_pc' = "sleep"
    /\ UNCHANGED <<rw_attempts, rw_attempt, rw_slept, rw_raised>>
    /\ UNCHANGED <<pipeVars, planVars, fnVars>>

\* func() raises a retryable error on the last attempt: the loop ends and
\* RetryableDependencyError(operation, max_attempts, last_exc) is raised.
RetryOpExhausted ==
    /\ rw_pc = "call"
    /\ LastAttempt(rw_attempt, rw_max_attempts)
    /\ \E x \in OpExcs :
        /\ is_retryable_exception(x)
        /\ LET e == [x EXCEPT !.at = rw_calls + 1]
           IN  /\ rw_failures' = Append(rw_failures, e)
               /\ rw_last_exc' = <<e>>
    /\ rw_calls' = rw_calls + 1
    /\ rw_pc' = "raised"
    /\ rw_raised' = <<Exc("RetryableDependencyError", 0)>>
    /\ UNCHANGED <<rw_attempts, rw_attempt, rw_slept>>
    /\ UNCHANGED <<pipeVars, planVars, fnVars>>

\* time.sleep(delay + jitter), then the next iteration.
RetrySleep ==
    /\ rw_pc = "sleep"
    /\ rw_slept' = Append(rw_slept, BackoffDelayMs(rw_attempt))
    /\ rw_attempt' = rw_attempt + 1
    /\ rw_pc' = "call"
    /\ UNCHANGED <<rw_attempts, rw_calls, rw_last_exc, rw_raised, rw_failures>>
    /\ UNCHANGED <<pipeVars, planVars, fnVars>>

RetryNext ==
    \/ RetryOpReturns
    \/ RetryOpRaisesPermanent
    \/ RetryOpRaisesRetryable
    \/ RetryOpExhausted
    \/ RetrySleep

\* -------------------------------------------------- resolve_retrieval_plan
PlanInit ==
    /\ plan_cfg \in Configs
    /\ plan_request \in BOOLEAN
    /\ plan_out = <<>>
    /\ plan_shadow = <<>>
    /\ plan_shadow2 = <<>>

PlanIdle ==
    /\ plan_cfg = AbsentInput.cfg
    /\ plan_request = FALSE
    /\ plan_out = <<>>
    /\ plan_shadow = <<>>
    /\ plan_shadow2 = <<>>

ResolvePlan ==
    /\ plan_out = <<>>
    /\ plan_out' = <<resolve_retrieval_plan(plan_request, plan_cfg)>>
    /\ UNCHANGED <<plan_cfg, plan_request, plan_shadow, plan_shadow2>>
    /\ UNCHANGED <<pipeVars, retryVars, fnVars>>

\* shadow_plan = resolve_shadow_retrieval_plan(plan)
ResolveShadowPlan ==
    /\ plan_out # <<>>
    /\ plan_shadow = <<>>
    /\ plan_shadow' = <<resolve_shadow_retrieval_plan(plan_out[1])>>
    /\ UNCHANGED <<plan_cfg, plan_request, plan_out, plan_shadow2>>
    /\ UNCHANGED <<pipeVars, retryVars, fnVars>>

\* resolve_shadow_retrieval_plan applied to a shadow plan
ResolveShadowOfShadow ==
    /\ plan_shadow # <<>>
    /\ plan_shadow2 = <<>>
    /\ plan_shadow2' = <<resolve_shadow_retrieval_plan(plan_shadow[1])>>
    /\ UNCHANGED <<plan_cfg, plan_request, plan_out, plan_shadow>>
    /\ UNCHANGED <<pipeVars, retryVars, fnVars>>

PlanNext ==
    \/ ResolvePlan
    \/ ResolveShadowPlan
    \/ ResolveShadowOfShadow

\* ------------------------------------------- the two sampling decisions
\* Request ids: absent, empty, and ids whose buckets are 0, 49, 50, 57, 74, 99.
RolloutSeeds == {NoneId, "", "anonymous", "r1", "r2", "rid-193", "rid-35", "rid-157", "rid-124"}

\* Percents, with one value outside 0..100 on each side.
RolloutPercents == (0 - 1) .. 101

\* adv_retrieval_eval_mode as the config carries it; "Shadow" is not "shadow".
RolloutModes == {"off", "shadow", "Shadow"}

RolloutInit ==
    /\ ro_seed \in RolloutSeeds
    /\ ro_percent \in RolloutPercents
    /\ ro_mode \in RolloutModes
    /\ ro_rollout = <<>>
    /\ ro_shadow = <<>>

RolloutIdle ==
    /\ ro_seed = NoneId
    /\ ro_percent = 0
    /\ ro_mode = "off"
    /\ ro_rollout = <<>>
    /\ ro_shadow = <<>>

\* enabled = _rollout_enabled(request_id, rollout_percent)
RolloutDecide ==
    /\ ro_rollout = <<>>
    /\ ro_rollout' = <<rollout_enabled(ro_seed, ro_percent)>>
    /\ UNCHANGED <<ro_seed, ro_percent, ro_mode, ro_shadow>>
    /\ UNCHANGED <<pipeVars, retryVars, planVars, cfgVars, reformVars, fuseVars, auxVars>>

\* run = should_run_shadow_eval(advanced_cfg=cfg, request_id=request_id)
ShadowEvalDecide ==
    /\ ro_shadow = <<>>
    /\ ro_shadow' = <<should_run_shadow_eval(
                         [adv_retrieval_eval_mode |-> ro_mode,
                          adv_retrieval_eval_sample_percent |-> ro_percent],
                         ro_seed)>>
    /\ UNCHANGED <<ro_seed, ro_percent, ro_mode, ro_rollout>>
    /\ UNCHANGED <<pipeVars, retryVars, planVars, cfgVars, reformVars, fuseVars, auxVars>>

RolloutNext ==
    \/ RolloutDecide
    \/ ShadowEvalDecide

\* --------------------------------------- resolving the config of a request
\* retrieval_strategy: known, known in mixed case with blanks, unknown, unset.
StrategySettings == {Plain("baseline"), Mixed("advanced_hybrid"), Plain("bogus"), NoneVal}

\* reranker_variant and query_rewrite_policy of the process.
RerankerPolicySettings ==
    {<<Plain("rrf_simple"), Plain("llm")>>,
     <<Mixed("cross_encoder"), Plain("")>>,
     <<Plain("bogus"), NoneVal>>}

\* adv_retrieval_rollout_percent: unset, below, inside and above 0..100,
\* a numeral, and a string that is no number.
RolloutSettings ==
    {NoneVal, IntVal(0 - 5), IntVal(0), IntVal(50), IntVal(100), IntVal(250),
     Plain("50"), Plain("abc")}

\* adv_retrieval_eval_mode and adv_retrieval_eval_sample_percent of the
\* process with the payload's values for the same two keys.
EvalCases ==
    {<<NoneVal, NoneVal, Absent, Absent>>,
     <<Plain("off"), IntVal(0), Plain("shadow"), IntVal(25)>>,
     <<Mixed("shadow"), IntVal(250), Absent, IntVal(25)>>,
     <<Plain("bogus"), IntVal(0 - 5), Mixed("shadow"), Absent>>}

SettingsFor(en, allow, st, rp, ro, ev) ==
    [adv_retrieval_enabled |-> BoolVal(en),
     adv_retrieval_allow_request_override |-> allow,
     retrieval_strategy |-> st,
     reranker_variant |-> rp[1],
     query_rewrite_policy |-> rp[2],
     adv_retrieval_rollout_percent |-> ro,
     adv_retrieval_eval_mode |-> ev[1],
     adv_retrieval_eval_sample_percent |-> ev[2]]

\* The defaults of config.py.
DefaultSettings ==
    SettingsFor(FALSE, FALSE, Plain("baseline"),
                <<Plain("rrf_simple"), Plain("disabled")>>,
                IntVal(0), <<NoneVal, NoneVal>>)

\* adv_retrieval_enabled in the payload: missing, true, false, None.
EnabledPayloads == {Absent, BoolVal(TRUE), BoolVal(FALSE), NoneVal}

\* retrieval_strategy in the payload: missing, empty, known in mixed case.
StrategyPayloads == {Absent, Plain(""), Mixed("advanced_hybrid_rerank")}

\* reranker_variant and query_rewrite_policy in the payload.
RerankerPolicyPayloads ==
    {<<Absent, Absent>>,
     <<Plain("cross_encoder"), Absent>>,
     <<Absent, Plain("simple")>>}

PayloadFor(en, st, rp, ev) ==
    [adv_retrieval_enabled |-> en,
     retrieval_strategy |-> st,
     reranker_variant |-> rp[1],
     query_rewrite_policy |-> rp[2],
     adv_retrieval_eval_mode |-> ev[3],
     adv_retrieval_eval_sample_percent |-> ev[4]]

\* Request ids with buckets 74 and 49, on both sides of a rollout of 50.
CfgIds == {"r1", "rid-35"}

CfgInit ==
    /\ \E en \in BOOLEAN, allow \in BOOLEAN, st \in StrategySettings,
          rp \in RerankerPolicySettings, ro \in RolloutSettings, ev \in EvalCases,
          pen \in EnabledPayloads, pst \in StrategyPayloads,
          prp \in RerankerPolicyPayloads :
           /\ cfg_settings = SettingsFor(en, allow, st, rp, ro, ev)
           /\ cfg_payload = PayloadFor(pen, pst, prp, ev)
    /\ cfg_id \in CfgIds
    /\ cfg_out = <<>>
    /\ cfg_exc = "none"
    /\ cfg_plan = <<>>

CfgIdle ==
    /\ cfg_settings = DefaultSettings
    /\ cfg_payload = NoPayload
    /\ cfg_id = "r1"
    /\ cfg_out = <<>>
    /\ cfg_exc = "none"
    /\ cfg_plan = <<>>

\* advanced_cfg = resolve_advanced_retrieval_config(request_payload=..., request_id=...)
ResolveConfig ==
    /\ cfg_out = <<>>
    /\ cfg_exc = "none"
    /\ cfg_exc' = clamp_rollout_percent_exc(cfg_settings.adv_retrieval_rollout_percent)
    /\ cfg_out' = IF cfg_exc' = "none"
                  THEN <<AdvancedRetrievalConfig(cfg_settings, cfg_payload, cfg_id)>>
                  ELSE <<>>
    /\ UNCHANGED <<cfg_settings, cfg_payload, cfg_id, cfg_plan>>
    /\ UNCHANGED <<pipeVars, retryVars, planVars, rolloutVars, reformVars, fuseVars, auxVars>>

\* retrieval_plan = resolve_retrieval_plan(request_use_reranking=..., advanced_cfg=...)
ResolvePlanOfConfig ==
    /\ cfg_out # <<>>
    /\ cfg_plan = <<>>
    /\ \E request_use_reranking \in BOOLEAN :
           cfg_plan' = <<[request_use_reranking |-> request_use_reranking,
                          plan |-> resolve_retrieval_plan(request_use_reranking, cfg_out[1])]>>
    /\ UNCHANGED <<cfg_settings, cfg_payload, cfg_id, cfg_out, cfg_exc>>
    /\ UNCHANGED <<pipeVars, retryVars, planVars, rolloutVars, reformVars, fuseVars, auxVars>>

CfgNext ==
    \/ ResolveConfig
    \/ ResolvePlanOfConfig

\* ------------------------------------------------- query reformulations
\* One upper-case letter, one lower-case letter, one punctuation mark, a blank.
QueryChars == {"A", "a", "!", " "}

Queries == UNION {[1 .. n -> QueryChars] : n \in 0 .. MaxQueryLen}

\* \s and \w of the regular expressions
IsSpace(c) == c = " "
IsWord(c) == c \in {"A", "a"}

\* str.lower()
str_lower(q) == [i \in 1 .. Len(q) |-> IF q[i] = "A" THEN "a" ELSE q[i]]

\* str.strip()
str_strip(q) ==
    LET solid == {i \in 1 .. Len(q) : ~IsSpace(q[i])}
    IN  IF solid = {} THEN <<>>
        ELSE SubSeq(q, CHOOSE i \in solid : \A j \in solid : i <= j,
                       CHOOSE i \in solid : \A j \in solid : i >= j)

\* re.sub(r"[^\w\s]", " ", query)
sub_punctuation(q) ==
    [i \in 1 .. Len(q) |-> IF ~IsWord(q[i]) /\ ~IsSpace(q[i]) THEN " " ELSE q[i]]

\* re.sub(r"\s+", " ", cleaned)
RECURSIVE sub_whitespace(_)
sub_whitespace(q) ==
    IF Len(q) <= 1 THEN q
    ELSE IF IsSpace(q[1]) /\ IsSpace(q[2]) THEN sub_whitespace(Tail(q))
    ELSE <<q[1]>> \o sub_whitespace(Tail(q))

\* The loop over the variants with its `seen` set.
RECURSIVE keep_first_seen(_, _, _)
keep_first_seen(variants, seen_so_far, out) ==
    IF variants = <<>> THEN out
    ELSE LET v == Head(variants)
         IN  IF v # <<>> /\ v \notin seen_so_far
             THEN keep_first_seen(Tail(variants), seen_so_far \cup {v}, Append(out, v))
             ELSE keep_first_seen(Tail(variants), seen_so_far, out)

simple_reformulations_unfiltered(query) ==
    LET cleaned == sub_punctuation(query)
        compact == str_strip(sub_whitespace(cleaned))
    IN  <<str_strip(query), str_strip(str_lower(query)), str_lower(compact)>>

simple_reformulations(query) ==
    LET cleaned == sub_punctuation(query)
        compact == str_strip(sub_whitespace(cleaned))
        variants == <<str_strip(query), str_strip(str_lower(query)), str_lower(compact)>>
    IN  keep_first_seen(variants, {}, <<>>)

\* reformulations(query, use_reranking, policy): [query] when use_reranking
\* is false or the policy is disabled, the simple reformulations otherwise.
get_reformulations(query, use_reranking, query_rewrite_policy) ==
    IF ~use_reranking \/ query_rewrite_policy = "disabled"
    THEN <<query>>
    ELSE simple_reformulations(query)

ReformInit ==
    /\ rf_query \in Queries
    /\ rf_use_reranking \in BOOLEAN
    /\ rf_policy \in RewritePolicies
    /\ rf_out = <<>>
    /\ rf_topk = <<>>

ReformIdle ==
    /\ rf_query = <<>>
    /\ rf_use_reranking = FALSE
    /\ rf_policy = "disabled"
    /\ rf_out = <<>>
    /\ rf_topk = <<>>

\* reformulations = get_reformulations(query, use_reranking=..., query_rewrite_policy=...)
GetReformulations ==
    /\ rf_out = <<>>
    /\ rf_out' = <<get_reformulations(rf_query, rf_use_reranking, rf_policy)>>
    /\ UNCHANGED <<rf_query, rf_use_reranking, rf_policy, rf_topk>>
    /\ UNCHANGED <<pipeVars, retryVars, planVars, rolloutVars, cfgVars, fuseVars, auxVars>>

\* retrieve_top_k: reformulations = _simple_reformulations(query) if use_reranking else [query]
RetrieveTopKReformulations ==
    /\ rf_topk = <<>>
    /\ rf_query # <<>>
    /\ rf_topk' = <<IF rf_use_reranking THEN simple_reformulations(rf_query)
                                         ELSE <<rf_query>> >>
    /\ UNCHANGED <<rf_query, rf_use_reranking, rf_policy, rf_out>>
    /\ UNCHANGED <<pipeVars, retryVars, planVars, rolloutVars, cfgVars, fuseVars, auxVars>>

ReformNext ==
    \/ GetReformulations
    \/ RetrieveTopKReformulations

\* ------------------------------------------------- reciprocal-rank fusion
\* A float (IEEE double) between 2^-7 and 2^-3 is a whole number of units of
\* 2^-59, written <<hi, lo>> for hi * Limb + lo.
Limb == 2 ^ 28

\* 1.0 / d, correctly rounded.
Recip(d) ==
    CASE d = 61 -> <<35204649, 259634294>>
      [] d = 62 -> <<34636833, 8659208>>
      [] d = 63 -> <<34087042, 8521760>>
      [] d = 64 -> <<33554432, 0>>
      [] d = 65 -> <<33038209, 260175904>>
      [] d = 66 -> <<32537631, 8134408>>
      [] d = 67 -> <<32051994, 200324967>>
      [] d = 68 -> <<31580641, 236854814>>
      [] d = 69 -> <<31122951, 112820699>>
      [] d = 70 -> <<30678337, 222417949>>
      [] d = 71 -> <<30246248, 151231243>>

\* x + y without rounding.
exact_add(x, y) == <<x[1] + y[1] + ((x[2] + y[2]) \div Limb), (x[2] + y[2]) % Limb>>

\* The units between neighbouring floats at x: 1 below 2^-6, doubling with
\* every power of two.
Ulp(x) ==
    IF x[1] < 2 ^ 25 THEN 1
    ELSE IF x[1] < 2 ^ 26 THEN 2
    ELSE IF x[1] < 2 ^ 27 THEN 4
    ELSE 8

\* Round to nearest float, ties to the even one.
round_to_float(x) ==
    LET m == Ulp(x)
        rem == x[2] % m
        down == <<x[1], x[2] - rem>>
        up == exact_add(down, <<0, m>>)
    IN  IF 2 * rem < m THEN down
        ELSE IF 2 * rem > m THEN up
        ELSE IF (down[2] \div m) % 2 = 0 THEN down
        ELSE up

\* The float x + y.
float_add(x, y) == round_to_float(exact_add(x, y))

float_less(x, y) == x[1] < y[1] \/ (x[1] = y[1] /\ x[2] < y[2])

\* The ranks a shared chunk may take: the first three, the last, or none (0).
Positions == (0 .. 2) \cup {ListDepth}

\* The i-th result list. Chunks 1 and 2 may be in several lists, at the ranks
\* posA and posB; every other chunk (10 * i + rank) is in one list only.
ListFor(i, posA, posB) ==
    [rank \in 1 .. ListDepth |->
        IF rank = posA THEN 1
        ELSE IF rank = posB THEN 2
        ELSE 10 * i + rank]

\* One list per reformulation; no list holds a chunk twice.
ResultLists ==
    UNION {{[i \in 1 .. n |-> ListFor(i, pos[i][1], pos[i][2])] :
               pos \in [1 .. n -> {pp \in Positions \X Positions :
                                       pp[1] # pp[2] \/ pp[1] = 0}]} :
           n \in 1 .. MaxReformulations}

\* enumerate(ranked, start=1): the rank of a chunk in a list, 0 when absent.
RankIn(ranked, chunk_id) ==
    IF \E idx \in 1 .. Len(ranked) : ranked[idx] = chunk_id
    THEN CHOOSE idx \in 1 .. Len(ranked) : ranked[idx] = chunk_id
    ELSE 0

\* scores[chunk_id] after the first n lists: 0.0, then + 1.0 / (rrf_k + idx)
\* for each list that holds the chunk, in the order of the lists.
RECURSIVE rrf_score(_, _, _)
rrf_score(results, n, chunk_id) ==
    IF n = 0 THEN <<0, 0>>
    ELSE LET before == rrf_score(results, n - 1, chunk_id)
             idx == RankIn(results[n], chunk_id)
         IN  IF idx = 0 THEN before
             ELSE float_add(before, Recip(rrf_k + idx))

\* The keys of `scores` in insertion order: every chunk at its first discovery.
RECURSIVE discovery_order(_, _, _, _)
discovery_order(results, n, idx, found) ==
    IF n > Len(results) THEN found
    ELSE IF idx > Len(results[n]) THEN discovery_order(results, n + 1, 1, found)
    ELSE LET chunk_id == results[n][idx]
         IN  IF \E j \in 1 .. Len(found) : found[j] = chunk_id
             THEN discovery_order(results, n, idx + 1, found)
             ELSE discovery_order(results, n, idx + 1, Append(found, chunk_id))

\* The place of every element after list.sort(reverse=True) on the keys:
\* descending, elements with equal keys in their former order.
sort_places_ascending(key) ==
    [i \in DOMAIN key |->
        1 + Cardinality({j \in DOMAIN key : \/ float_less(key[j], key[i])
                                             \/ (key[j] = key[i] /\ j < i)})]

sort_places(key) ==
    [i \in DOMAIN key |->
        1 + Cardinality({j \in DOMAIN key : \/ float_less(key[i], key[j])
                                             \/ (key[j] = key[i] /\ j < i)})]

arrange(fused, place) ==
    [p \in DOMAIN fused |-> fused[CHOOSE i \in DOMAIN fused : place[i] = p]]

\* fused.sort(key=lambda c: c.rerank_score or 0.0, reverse=True)
sort_by_score(fused, scores) ==
    arrange(fused, sort_places([i \in DOMAIN fused |-> scores[fused[i]]]))

\* The `scores` dict when the first loop of _rrf_fuse ends.
rrf_scores(results) ==
    LET fused == discovery_order(results, 1, 1, <<>>)
    IN  [chunk_id \in {fused[i] : i \in DOMAIN fused} |->
            rrf_score(results, Len(results), chunk_id)]

FuseInit ==
    /\ fu_results \in ResultLists
    /\ fu_scores = <<>>
    /\ fu_fused = <<>>
    /\ fu_out = <<>>

FuseIdle ==
    /\ fu_results = <<>>
    /\ fu_scores = <<>>
    /\ fu_fused = <<>>
    /\ fu_out = <<>>

\* fused = _rrf_fuse(results_by_query, rrf_k=rrf_k)
Fuse ==
    /\ fu_results # <<>>
    /\ fu_fused = <<>>
    /\ fu_scores' = rrf_scores(fu_results)
    /\ fu_fused' = <<sort_by_score(discovery_order(fu_results, 1, 1, <<>>), fu_scores')>>
    /\ UNCHANGED <<fu_results, fu_out>>
    /\ UNCHANGED <<pipeVars, retryVars, planVars, rolloutVars, cfgVars, reformVars, auxVars>>

\* return fused[:k]
ReturnTopK ==
    /\ fu_fused # <<>>
    /\ fu_out = <<>>
    /\ \E k \in 1 .. MaxK :
           fu_out' = <<k, SubSeq(fu_fused[1], 1, Min(k, Len(fu_fused[1])))>>
    /\ UNCHANGED <<fu_results, fu_scores, fu_fused>>
    /\ UNCHANGED <<pipeVars, retryVars, planVars, rolloutVars, cfgVars, reformVars, auxVars>>

FuseNext ==
    \/ Fuse
    \/ ReturnTopK

\* ------------------------------------------------ shadow evaluation metrics
\* A RetrievedChunk as the evaluation and build_context read it.  The content
\* is a sequence of characters, so that strip() has something to remove.
Chunk(chunk_id, source, chunk_index, content) ==
    [chunk_id |-> chunk_id, source |-> source, chunk_index |-> chunk_index,
     content |-> content]

\* Blocks of 24, 26 and 29 characters, and one of 23 whose chunk has no id;
\* two chunks share the id c1.
ChunkPool ==
    {Chunk("c1", "a", 0, <<"a">>),
     Chunk("c2", "a", 10, <<" ", "a", "a">>),
     Chunk("c1", "bb", 0, <<"a", "a", "a", "a", "a">>),
     Chunk("", "a", 0, <<" ">>)}

ChunkLists == UNION {[1 .. n -> ChunkPool] : n \in 0 .. MaxChunks}

\* max_chars: nothing fits, one small block fits exactly, two blocks fit, and
\* the budget of the build_context stage (chat.py 450).
ContextBudgets == {0, 26, 54, 4000}

RECURSIVE GCD(_, _)
GCD(a, b) == IF b = 0 THEN a ELSE GCD(b, a % b)

\* a / b on two small integers: the double nearest the quotient, named by the
\* quotient in lowest terms <<numerator, denominator>>.  0.0 is <<0, 1>>.
float_div(a, b) == <<a \div GCD(a, b), b \div GCD(a, b)>>

\* _chunk_ids: the ids of the chunks, a chunk without an id left out.
chunk_ids(chunks) == {chunks[i].chunk_id : i \in {j \in DOMAIN chunks : chunks[j].chunk_id # ""}}

\* Faulty variant of jaccard: the overlap as a share of the primary's ids.
jaccard_of_primary(primary_ids, shadow_ids) ==
    LET shared_ids == Cardinality(primary_ids \cap shadow_ids)
        union_ids == Cardinality(primary_ids)
    IN  [shared_ids |-> shared_ids,
         jaccard |-> IF union_ids # 0 THEN float_div(shared_ids, union_ids) ELSE <<0, 1>>]

\* shared_ids and jaccard of emit_retrieval_shadow_eval.
jaccard(primary_ids, shadow_ids) ==
    LET shared_ids == Cardinality(primary_ids \cap shadow_ids)
        union_ids == Cardinality(primary_ids \cup shadow_ids)
    IN  [shared_ids |-> shared_ids,
         jaccard |-> IF union_ids # 0 THEN float_div(shared_ids, union_ids) ELSE <<0, 1>>]

\* header + content.strip(), as <<header, stripped content>>; the same two
\* lines stand in build_context and in _estimate_context_proxy.
context_block(chunk) ==
    <<"[Source: " \o chunk.source \o " | Chunk: " \o ToString(chunk.chunk_index) \o "]\n",
      str_strip(chunk.content)>>

block_len(block) == Len(block[1]) + Len(block[2])

\* Faulty variant of _estimate_context_proxy: the separator is not counted.
estimate_context_proxy_no_separator(chunks, chat_context_max_chars) ==
    LET after[i \in 0 .. Len(chunks)] ==
            IF i = 0 THEN [used_chars |-> 0, included_chunks |-> 0, broke |-> FALSE]
            ELSE LET was == after[i - 1]
                     size == block_len(context_block(chunks[i]))
                 IN  IF was.broke \/ was.used_chars + size > chat_context_max_chars
                     THEN [was EXCEPT !.broke = TRUE]
                     ELSE [used_chars |-> was.used_chars + size,
                           included_chunks |-> was.included_chunks + 1,
                           broke |-> FALSE]
    IN  <<after[Len(chunks)].used_chars, after[Len(chunks)].included_chunks>>

\* _estimate_context_proxy: after[i] is the state of the loop once it is
\* through chunks[i], `broke` once the break was taken.
estimate_context_proxy(chunks, chat_context_max_chars) ==
    LET after[i \in 0 .. Len(chunks)] ==
            IF i = 0 THEN [used_chars |-> 0, included_chunks |-> 0, broke |-> FALSE]
            ELSE LET was == after[i - 1]
                     size == block_len(context_block(chunks[i]))
                 IN  IF was.broke \/ was.used_chars + size + 2 > chat_context_max_chars
                     THEN [was EXCEPT !.broke = TRUE]
                     ELSE [used_chars |-> was.used_chars + size + 2,
                           included_chunks |-> was.included_chunks + 1,
                           broke |-> FALSE]
    IN  <<after[Len(chunks)].used_chars, after[Len(chunks)].included_chunks>>

\* _chars_to_token_proxy
chars_to_token_proxy(char_count) == Max(0, (char_count + 3) \div 4)

\* build_context: the blocks it joins with "\n\n", in order.
build_context(chunks, max_chars) ==
    LET after[i \in 0 .. Len(chunks)] ==
            IF i = 0 THEN [parts |-> <<>>, used |-> 0, broke |-> FALSE]
            ELSE LET was == after[i - 1]
                     block == context_block(chunks[i])
                 IN  IF was.broke \/ was.used + block_len(block) + 2 > max_chars
                     THEN [was EXCEPT !.broke = TRUE]
                     ELSE [parts |-> Append(was.parts, block),
                           used |-> was.used + block_len(block) + 2,
                           broke |-> FALSE]
    IN  after[Len(chunks)].parts

\* What emit_retrieval_shadow_eval computes before it logs (chat_shadow.py 25-37).
shadow_eval_metrics(primary_chunks, shadow_chunks, chat_context_max_chars) ==
    LET overlap == jaccard(chunk_ids(primary_chunks), chunk_ids(shadow_chunks))
        primary_proxy == estimate_context_proxy(primary_chunks, chat_context_max_chars)
        shadow_proxy == estimate_context_proxy(shadow_chunks, chat_context_max_chars)
    IN  [shared_ids |-> overlap.shared_ids,
         jaccard |-> overlap.jaccard,
         primary_context_chars |-> primary_proxy[1],
         primary_context_chunks |-> primary_proxy[2],
         shadow_context_chars |-> shadow_proxy[1],
         shadow_context_chunks |-> shadow_proxy[2],
         primary_context_token_proxy |-> chars_to_token_proxy(primary_proxy[1]),
         shadow_context_token_proxy |-> chars_to_token_proxy(shadow_proxy[1])]

EvalInit ==
    /\ ev_primary \in ChunkLists
    /\ ev_shadow \in ChunkLists
    /\ ev_budget \in ContextBudgets
    /\ ev_out = <<>>
    /\ ev_context = <<>>

EvalIdle ==
    /\ ev_primary = <<>>
    /\ ev_shadow = <<>>
    /\ ev_budget = 0
    /\ ev_out = <<>>
    /\ ev_context = <<>>

\* The shadow task evaluates the two lists.
EmitShadowEval ==
    /\ ev_out = <<>>
    /\ ev_out' = <<shadow_eval_metrics(ev_primary, ev_shadow, ev_budget)>>
    /\ UNCHANGED <<ev_primary, ev_shadow, ev_budget, ev_context>>
    /\ UNCHANGED <<coreVars, notEval>>

\* The build_context stage of the primary stream.
BuildContext ==
    /\ ev_context = <<>>
    /\ ev_context' = <<build_context(ev_primary, ev_budget)>>
    /\ UNCHANGED <<ev_primary, ev_shadow, ev_budget, ev_out>>
    /\ UNCHANGED <<coreVars, notEval>>

EvalNext ==
    \/ EmitShadowEval
    \/ BuildContext

\* ---------------------------------------------------- metrics aggregator
\* Two threads that observe shadow evaluations and one that renders.
Observers == {"o1", "o2"}
Renderer == "rd"
MetricThreads == Observers \cup {Renderer}

\* _retrieval_shadow_eval_total and the _count dict of each histogram, in the
\* order observe_retrieval_shadow_eval increments them and
\* render_prometheus_text reads them.
Series ==
    <<"retrieval_shadow_eval_total", "retrieval_shadow_jaccard_count",
      "retrieval_shadow_latency_delta_ms_count",
      "retrieval_shadow_context_token_delta_count">>

\* metric_key: an empty label becomes "unknown".
metric_key(status, primary_strategy, shadow_strategy) ==
    <<IF status # "" THEN status ELSE "unknown",
      IF primary_strategy # "" THEN primary_strategy ELSE "unknown",
      IF shadow_strategy # "" THEN shadow_strategy ELSE "unknown">>

ObservedStatuses == {"ok", ""}

MetricKeys == {metric_key(st, "baseline", "advanced_hybrid") : st \in ObservedStatuses}

\* Faulty variant of lock_acquire: the lock excludes nobody.
lock_acquire_unguarded(holder, t) == TRUE

\* `with _lock:` lets thread t in when no thread holds the lock.
lock_acquire(holder, t) == holder = "free"

MetricsInitRest ==
    /\ mx_lock = "free"
    /\ mx_series = [i \in DOMAIN Series |-> [k \in MetricKeys |-> 0]]
    /\ mx_pc = [t \in MetricThreads |-> "idle"]
    /\ mx_at = [t \in MetricThreads |-> 1]
    /\ mx_key = [t \in Observers |-> metric_key("", "", "")]
    /\ mx_tmp = [t \in Observers |-> 0]
    /\ mx_done = [k \in MetricKeys |-> 0]
    /\ mx_snap = <<>>
    /\ mx_renders = {}

MetricsInit ==
    /\ mx_left = [t \in MetricThreads |-> IF t = Renderer THEN MaxRenders ELSE MaxObservations]
    /\ MetricsInitRest

MetricsIdle ==
    /\ mx_left = [t \in MetricThreads |-> 0]
    /\ MetricsInitRest

\* observe_retrieval_shadow_eval up to `with _lock:` (metrics.py 156-166).
ObserveAcquire(t) ==
    /\ mx_pc[t] = "idle"
    /\ mx_left[t] > 0
    /\ lock_acquire(mx_lock, t)
    /\ mx_lock' = t
    /\ \E status \in ObservedStatuses :
           mx_key' = [mx_key EXCEPT ![t] = metric_key(status, "baseline", "advanced_hybrid")]
    /\ mx_left' = [mx_left EXCEPT ![t] = @ - 1]
    /\ mx_pc' = [mx_pc EXCEPT ![t] = "load"]
    /\ mx_at' = [mx_at EXCEPT ![t] = 1]
    /\ UNCHANGED <<mx_series, mx_tmp, mx_done, mx_snap, mx_renders>>
    /\ UNCHANGED <<coreVars, notMetrics>>

\* series[metric_key] += 1 reads the entry ...
ObserveLoad(t) ==
    /\ mx_pc[t] = "load"
    /\ mx_tmp' = [mx_tmp EXCEPT ![t] = mx_series[mx_at[t]][mx_key[t]]]
    /\ mx_pc' = [mx_pc EXCEPT ![t] = "store"]
    /\ UNCHANGED <<mx_lock, mx_series, mx_at, mx_key, mx_left, mx_done, mx_snap, mx_renders>>
    /\ UNCHANGED <<coreVars, notMetrics>>

\* ... and writes it back one higher; then the next series, or the end of the
\* with block.
ObserveStore(t) ==
    /\ mx_pc[t] = "store"
    /\ mx_series' = [mx_series EXCEPT ![mx_at[t]][mx_key[t]] = mx_tmp[t] + 1]
    /\ IF mx_at[t] < Len(Series)
       THEN /\ mx_at' = [mx_at EXCEPT ![t] = @ + 1]
            /\ mx_pc' = [mx_pc EXCEPT ![t] = "load"]
       ELSE /\ mx_pc' = [mx_pc EXCEPT ![t] = "release"]
            /\ UNCHANGED mx_at
    /\ UNCHANGED <<mx_lock, mx_key, mx_tmp, mx_left, mx_done, mx_snap, mx_renders>>
    /\ UNCHANGED <<coreVars, notMetrics>>

\* The with block is left and the observation returns.
ObserveRelease(t) ==
    /\ mx_pc[t] = "release"
    /\ t \in Observers
    /\ mx_lock' = "free"
    /\ mx_done' = [mx_done EXCEPT ![mx_key[t]] = @ + 1]
    /\ mx_pc' = [mx_pc EXCEPT ![t] = "idle"]
    /\ UNCHANGED <<mx_series, mx_at, mx_key, mx_tmp, mx_left, mx_snap, mx_renders>>
    /\ UNCHANGED <<coreVars, notMetrics>>

\* render_prometheus_text up to `with _lock:` (metrics.py 192-194).
RenderAcquire ==
    /\ mx_pc[Renderer] = "idle"
    /\ mx_left[Renderer] > 0
    /\ lock_acquire(mx_lock, Renderer)
    /\ mx_lock' = Renderer
    /\ mx_left' = [mx_left EXCEPT ![Renderer] = @ - 1]
    /\ mx_pc' = [mx_pc EXCEPT ![Renderer] = "read"]
    /\ mx_at' = [mx_at EXCEPT ![Renderer] = 1]
    /\ mx_snap' = <<>>
    /\ UNCHANGED <<mx_series, mx_key, mx_tmp, mx_done, mx_renders>>
    /\ UNCHANGED <<coreVars, notMetrics>>

\* The lines of one series are appended from its dict.
RenderRead ==
    /\ mx_pc[Renderer] = "read"
    /\ mx_snap' = Append(mx_snap, mx_series[mx_at[Renderer]])
    /\ IF mx_at[Renderer] < Len(Series)
       THEN /\ mx_at' = [mx_at EXCEPT ![Renderer] = @ + 1]
            /\ UNCHANGED mx_pc
       ELSE /\ mx_pc' = [mx_pc EXCEPT ![Renderer] = "release"]
            /\ UNCHANGED mx_at
    /\ UNCHANGED <<mx_lock, mx_series, mx_key, mx_tmp, mx_left, mx_done, mx_renders>>
    /\ UNCHANGED <<coreVars, notMetrics>>

\* The with block is left and the text is returned.
RenderRelease ==
    /\ mx_pc[Renderer] = "release"
    /\ mx_lock' = "free"
    /\ mx_renders' = mx_renders \cup {mx_snap}
    /\ mx_pc' = [mx_pc EXCEPT ![Renderer] = "idle"]
    /\ UNCHANGED <<mx_series, mx_at, mx_key, mx_tmp, mx_left, mx_done, mx_snap>>
    /\ UNCHANGED <<coreVars, notMetrics>>

MetricsNext ==
    \/ \E t \in Observers :
           \/ ObserveAcquire(t)
           \/ ObserveLoad(t)
           \/ ObserveStore(t)
           \/ ObserveRelease(t)
    \/ RenderAcquire
    \/ RenderRead
    \/ RenderRelease

\* ------------------------------------------- requests resolving a config
NoEval == <<NoneVal, NoneVal, Absent, Absent>>

ResolveSettings ==
    {SettingsFor(en, allow, st, rp, ro, NoEval) :
        en \in BOOLEAN, allow \in BOOLEAN, st \in StrategySettings,
        rp \in RerankerPolicySettings, ro \in RolloutSettings}

\* No payload, a payload that turns the flag on, one that names a strategy.
ResolvePayloads ==
    {NoPayload,
     PayloadFor(BoolVal(TRUE), Absent, <<Absent, Absent>>, NoEval),
     PayloadFor(Absent, Mixed("advanced_hybrid_rerank"), <<Absent, Absent>>, NoEval)}

ResolveInit ==
    /\ rs_settings \in ResolveSettings
    /\ rs_calls = {}

ResolveIdle ==
    /\ rs_settings = DefaultSettings
    /\ rs_calls = {}

\* Faulty variant of ResolveForRequest: the effective flag is stored in the
\* process settings.
ResolveForRequestStoresFlag ==
    \E request_payload \in ResolvePayloads, request_id \in CfgIds :
        LET result == resolve_advanced_retrieval_config(rs_settings, request_payload, request_id)
        IN  /\ rs_calls' = rs_calls \cup
                   {[request_payload |-> request_payload,
                     request_id |-> request_id,
                     payload_after |-> request_payload,
                     result |-> result]}
            /\ rs_settings' =
                   [rs_settings EXCEPT !.adv_retrieval_enabled = BoolVal(result.enabled)]
            /\ UNCHANGED <<coreVars, notResolve>>

\* Some request calls resolve_advanced_retrieval_config with its payload and
\* id.  The function reads settings and the payload and assigns to locals
\* only; the call is recorded with the payload as it is afterwards.
ResolveForRequest ==
    \E request_payload \in ResolvePayloads, request_id \in CfgIds :
        /\ rs_calls' = rs_calls \cup
               {[request_payload |-> request_payload,
                 request_id |-> request_id,
                 payload_after |-> request_payload,
                 result |-> resolve_advanced_retrieval_config(
                               rs_settings, request_payload, request_id)]}
        /\ UNCHANGED rs_settings
        /\ UNCHANGED <<coreVars, notResolve>>

ResolveNext == ResolveForRequest

\* -------------------------------------------------- TopKRetriever.retrieve
\* What the database calls of _retrieve_once raise: two transient errors and
\* one that is_retryable_exception does not list.
DbExcs ==
    {Exc("psycopg2.OperationalError", 0), Exc("psycopg2.InterfaceError", 0),
     Exc("psycopg2.ProgrammingError", 0)}

\* An exception on its way out of _retrieve_once, with the call it left.
Raised(e, origin) == [exc |-> e, origin |-> origin]

\* max_attempts = attempts or dependency_retry_attempts(); neither call site
\* passes attempts, so both read DEPENDENCY_RETRY_ATTEMPTS.
NestInit ==
    /\ nt_attempts \in 1..MaxAttempts
    /\ nt_query \in {"", "q"}
    /\ nt_pc = "start"
    /\ nt_outer = 1
    /\ nt_inner = 1
    /\ nt_embed_calls = 0
    /\ nt_query_calls = 0
    /\ nt_exc = <<>>
    /\ nt_raised = <<>>
    /\ nt_retried = <<>>

NestIdle ==
    /\ nt_attempts = DefaultRetryAttempts
    /\ nt_query = ""
    /\ nt_pc = "idle"
    /\ nt_outer = 1
    /\ nt_inner = 1
    /\ nt_embed_calls = 0
    /\ nt_query_calls = 0
    /\ nt_exc = <<>>
    /\ nt_raised = <<>>
    /\ nt_retried = <<>>

\* `if not query: return []`, else the first attempt of
\* retry_with_backoff(_retrieve_once, operation="retrieve_top_k").
NestStart ==
    /\ nt_pc = "start"
    /\ nt_pc' = IF nt_query = "" THEN "returned" ELSE "setup"
    /\ UNCHANGED <<nt_attempts, nt_query, nt_outer, nt_inner, nt_embed_calls,
                   nt_query_calls, nt_exc, nt_raised, nt_retried>>
    /\ UNCHANGED <<coreVars, notNest>>

\* get_conn(), SET LOCAL statement_timeout and get_db_vector_dim(cur) succeed;
\* embed_query starts its own retry_with_backoff at attempt 1.
NestSetupOk ==
    /\ nt_pc = "setup"
    /\ nt_pc' = "embed"
    /\ nt_inner' = 1
    /\ UNCHANGED <<nt_attempts, nt_query, nt_outer, nt_embed_calls,
                   nt_query_calls, nt_exc, nt_raised, nt_retried>>
    /\ UNCHANGED <<coreVars, notNest>>

\* One of them raises: the exception leaves _retrieve_once.
NestSetupRaises ==
    /\ nt_pc = "setup"
    /\ \E e \in DbExcs : nt_exc' = <<Raised(e, "setup")>>
    /\ nt_pc' = "outer_except"
    /\ UNCHANGED <<nt_attempts, nt_query, nt_outer, nt_inner, nt_embed_calls,
                   nt_query_calls, nt_raised, nt_retried>>
    /\ UNCHANGED <<coreVars, notNest>>

\* self._impl.embed_query(text) returns: retry_with_backoff returns its value
\* and enforce_timeout_budget is next.
NestEmbedOk ==
    /\ nt_pc = "embed"
    /\ nt_embed_calls' = nt_embed_calls + 1
    /\ nt_pc' = "budget"
    /\ UNCHANGED <<nt_attempts, nt_query, nt_outer, nt_inner, nt_query_calls,
                   nt_exc, nt_raised, nt_retried>>
    /\ UNCHANGED <<coreVars, notNest>>

\* self._impl.embed_query(text) raises inside embed_query's own
\* retry_with_backoff: a permanent error is re-raised, a transient one on the
\* last attempt becomes RetryableDependencyError, any other is slept on and
\* the operation is invoked again.
NestEmbedRaises ==
    /\ nt_pc = "embed"
    /\ nt_embed_calls' = nt_embed_calls + 1
    /\ \E e \in OpExcs :
        IF ~is_retryable_exception(e)
        THEN /\ nt_exc' = <<Raised(e, "embed")>>
             /\ nt_pc' = "outer_except"
             /\ UNCHANGED nt_inner
        ELSE IF LastAttempt(nt_inner, nt_attempts)
        THEN /\ nt_exc' = <<Raised(Exc("RetryableDependencyError", 0), "embed_retry")>>
             /\ nt_pc' = "outer_except"
             /\ UNCHANGED nt_inner
        ELSE /\ nt_inner' = nt_inner + 1
             /\ UNCHANGED <<nt_exc, nt_pc>>
    /\ UNCHANGED <<nt_attempts, nt_query, nt_outer, nt_query_calls, nt_raised,
                   nt_retried>>
    /\ UNCHANGED <<coreVars, notNest>>

\* enforce_timeout_budget after the embedding returned: the elapsed time of
\* the call and its retries is within dependency_timeout_seconds().
NestBudgetOk ==
    /\ nt_pc = "budget"
    /\ nt_pc' = "query"
    /\ UNCHANGED <<nt_attempts, nt_query, nt_outer, nt_inner, nt_embed_calls,
                   nt_query_calls, nt_exc, nt_raised, nt_retried>>
    /\ UNCHANGED <<coreVars, notNest>>

\* elapsed > timeout_seconds: `raise TimeoutError(...)`, the builtin.
NestBudgetExceeded ==
    /\ nt_pc = "budget"
    /\ nt_exc' = <<Raised(Exc("TimeoutError", 0), "budget")>>
    /\ nt_pc' = "outer_except"
    /\ UNCHANGED <<nt_attempts, nt_query, nt_outer, nt_inner, nt_embed_calls,
                   nt_query_calls, nt_raised, nt_retried>>
    /\ UNCHANGED <<coreVars, notNest>>

\* cur.execute(SELECT ... LIMIT k) and cur.fetchall() succeed: the rows are
\* returned by _retrieve_once and by retry_with_backoff.
NestQueryOk ==
    /\ nt_pc = "query"
    /\ nt_query_calls' = nt_query_calls + 1
    /\ nt_pc' = "returned"
    /\ UNCHANGED <<nt_attempts, nt_query, nt_outer, nt_inner, nt_embed_calls,
                   nt_exc, nt_raised, nt_retried>>
    /\ UNCHANGED <<coreVars, notNest>>

\* The SELECT raises.
NestQueryRaises ==
    /\ nt_pc = "query"
    /\ nt_query_calls' = nt_query_calls + 1
    /\ \E e \in DbExcs : nt_exc' = <<Raised(e, "query")>>
    /\ nt_pc' = "outer_except"
    /\ UNCHANGED <<nt_attempts, nt_query, nt_outer, nt_inner, nt_embed_calls,
                   nt_raised, nt_retried>>
    /\ UNCHANGED <<coreVars, notNest>>

\* The `except Exception as exc` of the retry_with_backoff around
\* _retrieve_once: `raise` when retry_if(exc) is false, RetryableDependencyError
\* after the last attempt, else sleep and call _retrieve_once again.
NestOuterExcept ==
    /\ nt_pc = "outer_except"
    /\ LET raised == nt_exc[1]
       IN  IF ~is_retryable_exception(raised.exc)
           THEN /\ nt_raised' = nt_exc
                /\ nt_pc' = "raised"
                /\ UNCHANGED <<nt_outer, nt_retried>>
           ELSE IF LastAttempt(nt_outer, nt_attempts)
           THEN /\ nt_raised' =
                       <<Raised(Exc("RetryableDependencyError", 0), "retrieve_retry")>>
                /\ nt_pc' = "raised"
                /\ UNCHANGED <<nt_outer, nt_retried>>
           ELSE /\ nt_outer' = nt_outer + 1
                /\ nt_retried' = Append(nt_retried, raised.origin)
                /\ nt_pc' = "setup"
                /\ UNCHANGED nt_raised
    /\ nt_exc' = <<>>
    /\ UNCHANGED <<nt_attempts, nt_query, nt_inner, nt_embed_calls, nt_query_calls>>
    /\ UNCHANGED <<coreVars, notNest>>

NestNext ==
    \/ NestStart
    \/ NestSetupOk
    \/ NestSetupRaises
    \/ NestEmbedOk
    \/ NestEmbedRaises
    \/ NestBudgetOk
    \/ NestBudgetExceeded
    \/ NestQueryOk
    \/ NestQueryRaises
    \/ NestOuterExcept

\* ---------------------------------------------------------- retrieve_top_k
\* The k of a call: below 10, and above it.
TopKs == {1, MaxK, 10 + MaxK}

\* The per_query_k argument: None (<<>>), 0, or a size of its own.
PerQueryKs == {<<>>, <<0>>, <<2>>}

\* What one SELECT may return, as chunk ids in the order of the rows.
RowLists == {<<>>, <<1, 2>>, <<2, 1>>}

\* The first `limit` rows: LIMIT %s.
Limit(rows, limit) == SubSeq(rows, 1, Min(limit, Len(rows)))

\* RetrievedChunk(chunk_id=..., ...): rerank_score keeps its default None.
RetrievedChunk(chunk_id) == [chunk_id |-> chunk_id, rerank_score |-> <<>>]

\* Faulty variant of per_query_fetch: the fetch size is k with reranking too.
per_query_fetch_always_k(k, use_reranking, per_query_k) ==
    IF per_query_k # <<>> /\ per_query_k[1] # 0 THEN per_query_k[1] ELSE k

\* per_query_k = per_query_k or (max(k, 10) if use_reranking else k)
per_query_fetch(k, use_reranking, per_query_k) ==
    IF per_query_k # <<>> /\ per_query_k[1] # 0
    THEN per_query_k[1]
    ELSE IF use_reranking THEN Max(k, 10) ELSE k

\* _rrf_fuse on chunk objects: every chunk of `scores` with its rerank_score
\* set, sorted by it.
rrf_fuse_chunks(results_by_query) ==
    LET ids == [n \in DOMAIN results_by_query |->
                   [idx \in DOMAIN results_by_query[n] |->
                       results_by_query[n][idx].chunk_id]]
        scores == rrf_scores(ids)
        fused == sort_by_score(discovery_order(ids, 1, 1, <<>>), scores)
    IN  [p \in DOMAIN fused |->
            [chunk_id |-> fused[p], rerank_score |-> <<scores[fused[p]]>>]]

TopKInit ==
    /\ tk_query \in Queries
    /\ tk_k \in TopKs
    /\ tk_use_reranking \in BOOLEAN
    /\ tk_per_query_k \in PerQueryKs
    /\ tk_pc = "start"
    /\ tk_reformulations = <<>>
    /\ tk_fetch = 0
    /\ tk_issued = <<>>
    /\ tk_results = <<>>
    /\ tk_out = <<>>

TopKIdle ==
    /\ tk_query = <<>>
    /\ tk_k = 0
    /\ tk_use_reranking = FALSE
    /\ tk_per_query_k = <<>>
    /\ tk_pc = "idle"
    /\ tk_reformulations = <<>>
    /\ tk_fetch = 0
    /\ tk_issued = <<>>
    /\ tk_results = <<>>
    /\ tk_out = <<>>

\* `if not query: return []`; else the reformulations and the fetch size are
\* fixed before the connection is opened.
TopKStart ==
    /\ tk_pc = "start"
    /\ IF tk_query = <<>>
       THEN /\ tk_out' = << <<>> >>
            /\ tk_pc' = "returned"
            /\ UNCHANGED <<tk_reformulations, tk_fetch>>
       ELSE /\ tk_reformulations' =
                   IF tk_use_reranking THEN simple_reformulations(tk_query)
                                       ELSE <<tk_query>>
            /\ tk_fetch' = per_query_fetch(tk_k, tk_use_reranking, tk_per_query_k)
            /\ tk_pc' = "loop"
            /\ UNCHANGED tk_out
    /\ UNCHANGED <<tk_query, tk_k, tk_use_reranking, tk_per_query_k, tk_issued,
                   tk_results>>
    /\ UNCHANGED <<coreVars, notTopK>>

\* One pass of `for q in reformulations`: embed q, SELECT ... LIMIT
\* per_query_k, and append the rows as RetrievedChunk objects.
TopKRetrieveOnce ==
    /\ tk_pc = "loop"
    /\ Len(tk_issued) < Len(tk_reformulations)
    /\ \E found \in RowLists :
        LET q == tk_reformulations[Len(tk_issued) + 1]
            rows == Limit(found, tk_fetch)
        IN  /\ tk_issued' = Append(tk_issued,
                                   [query |-> q, limit |-> tk_fetch, rows |-> rows])
            /\ tk_results' = Append(tk_results,
                                    [j \in DOMAIN rows |-> RetrievedChunk(rows[j])])
    /\ UNCHANGED <<tk_query, tk_k, tk_use_reranking, tk_per_query_k, tk_pc,
                   tk_reformulations, tk_fetch, tk_out>>
    /\ UNCHANGED <<coreVars, notTopK>>

\* The connection, the embedding or the SELECT raises: nothing in
\* retrieve_top_k catches it, and the call ends.  `executed` tells whether
\* the SELECT of the current reformulation was sent.
TopKRaises ==
    /\ tk_pc = "loop"
    /\ \E executed \in BOOLEAN :
        IF executed
        THEN /\ Len(tk_issued) < Len(tk_reformulations)
             /\ tk_issued' = Append(tk_issued,
                    [query |-> tk_reformulations[Len(tk_issued) + 1],
                     limit |-> tk_fetch, rows |-> <<>>])
        ELSE UNCHANGED tk_issued
    /\ tk_pc' = "raised"
    /\ UNCHANGED <<tk_query, tk_k, tk_use_reranking, tk_per_query_k,
                   tk_reformulations, tk_fetch, tk_results, tk_out>>
    /\ UNCHANGED <<coreVars, notTopK>>

\* After the loop: results_by_query[0] (or []) without reranking, else
\* _rrf_fuse(results_by_query, rrf_k=rrf_k)[:k].
TopKReturn ==
    /\ tk_pc = "loop"
    /\ Len(tk_issued) = Len(tk_reformulations)
    /\ tk_out' =
           IF ~tk_use_reranking
           THEN <<IF tk_results # <<>> THEN tk_results[1] ELSE <<>> >>
           ELSE LET fused == rrf_fuse_chunks(tk_results)
                IN  <<SubSeq(fused, 1, Min(tk_k, Len(fused)))>>
    /\ tk_pc' = "returned"
    /\ UNCHANGED <<tk_query, tk_k, tk_use_reranking, tk_per_query_k,
                   tk_reformulations, tk_fetch, tk_issued, tk_results>>
    /\ UNCHANGED <<coreVars, notTopK>>

TopKNext ==
    \/ TopKStart
    \/ TopKRetrieveOnce
    \/ TopKRaises
    \/ TopKReturn

CallIdle == NestIdle /\ TopKIdle

AuxIdle == EvalIdle /\ MetricsIdle /\ ResolveIdle /\ CallIdle

FnIdle == RolloutIdle /\ CfgIdle /\ ReformIdle /\ FuseIdle /\ AuxIdle

\* --------------------------------------------------------- specifications
PipeIdle ==
    /\ input = [r \in Reqs |-> AbsentInput]
    /\ PipeInitRest

\* One chat request.
Init == PipeInit /\ RetryIdle /\ PlanIdle /\ FnIdle

Spec == Init /\ [][PipeNext]_vars

\* Two chat requests on one worker.
InitConc == ConcInit /\ RetryIdle /\ PlanIdle /\ FnIdle

SpecConc == InitConc /\ [][PipeNext]_vars

\* One call of retry_with_backoff.
InitRetry == RetryInit /\ PipeIdle /\ PlanIdle /\ FnIdle

SpecRetry == InitRetry /\ [][RetryNext]_vars

\* One call of resolve_retrieval_plan.
InitPlan == PlanInit /\ PipeIdle /\ RetryIdle /\ FnIdle

SpecPlan == InitPlan /\ [][PlanNext]_vars

InitRollout == RolloutInit /\ PipeIdle /\ RetryIdle /\ PlanIdle /\ CfgIdle /\ ReformIdle /\ FuseIdle /\ AuxIdle

SpecRollout == InitRollout /\ [][RolloutNext]_vars

InitCfg == CfgInit /\ PipeIdle /\ RetryIdle /\ PlanIdle /\ RolloutIdle /\ ReformIdle /\ FuseIdle /\ AuxIdle

SpecCfg == InitCfg /\ [][CfgNext]_vars

InitReform == ReformInit /\ PipeIdle /\ RetryIdle /\ PlanIdle /\ RolloutIdle /\ CfgIdle /\ FuseIdle /\ AuxIdle

SpecReform == InitReform /\ [][ReformNext]_vars

InitFuse == FuseInit /\ PipeIdle /\ RetryIdle /\ PlanIdle /\ RolloutIdle /\ CfgIdle /\ ReformIdle /\ AuxIdle

SpecFuse == InitFuse /\ [][FuseNext]_vars

CoreIdle ==
    PipeIdle /\ RetryIdle /\ PlanIdle /\ RolloutIdle /\ CfgIdle /\ ReformIdle /\ FuseIdle

\* The shadow evaluation of two chunk lists.
InitEval == EvalInit /\ CoreIdle /\ MetricsIdle /\ ResolveIdle /\ CallIdle

SpecEval == InitEval /\ [][EvalNext]_vars

\* Threads observing and rendering on the one aggregator.
InitMetrics == MetricsInit /\ CoreIdle /\ EvalIdle /\ ResolveIdle /\ CallIdle

SpecMetrics == InitMetrics /\ [][MetricsNext]_vars

\* Requests resolving their config from the one settings object.
InitResolve == ResolveInit /\ CoreIdle /\ EvalIdle /\ MetricsIdle /\ CallIdle

SpecResolve == InitResolve /\ [][ResolveNext]_vars

\* One call of TopKRetriever.retrieve.
InitNest == NestInit /\ CoreIdle /\ EvalIdle /\ MetricsIdle /\ ResolveIdle /\ TopKIdle

SpecNest == InitNest /\ [][NestNext]_vars

\* One call of retrieve_top_k.
InitTopK == TopKInit /\ CoreIdle /\ EvalIdle /\ MetricsIdle /\ ResolveIdle /\ NestIdle

SpecTopK == InitTopK /\ [][TopKNext]_vars

\* ------------------------------------------------------------- properties
IsPrefix(s, t) == Len(s) <= Len(t) /\ SubSeq(t, 1, Len(s)) = s

ErrorEvents(r) == SelectSeq(events[r], LAMBDA ev : ev.ev = "error")

\* The run of request r raised: its fault names a step, and the run got there.
RunFailed(r) == input[r].fault.stage # "none" /\ pc[r] \in {"handler", "err_done", "done"}

\* C1: every run of the event stream - whatever its path - emits exactly one
\* chat_pipeline_summary event over the whole run: status ok when it completes,
\* status error with the failing stage and the normalized error code when a
\* step fails.
C1_ExactlyOneSummary ==
    \A r \in Reqs :
        /\ Len(summaries[r]) <= 1
        /\ pc[r] = "done" =>
            /\ Len(summaries[r]) = 1
            /\ IF input[r].fault.stage = "none"
               THEN summaries[r][1].status = "ok"
               ELSE /\ summaries[r][1].status = "error"
                    /\ summaries[r][1].failed_stage =
                         IF input[r].fault.stage = "context" THEN "unknown"
                         ELSE input[r].fault.stage
                    /\ summaries[r][1].error_code =
                         chat_error_code(input[r].fault.exc, failed_stage_ref[r])

\* What a request is without its shadow-evaluation settings.
LowInput(i) ==
    [i EXCEPT !.cfg.adv_retrieval_eval_mode = "off",
              !.cfg.adv_retrieval_eval_sample_percent = 0]

PrimaryStep(r) ==
    \/ Start(r) \/ YieldDoneEmpty(r) \/ RunStageOk(r) \/ RunStageFail(r)
    \/ ShadowLaunch(r) \/ ShadowSkip(r) \/ GenerateStart(r) \/ GenerateToken(r)
    \/ GenerateFail(r) \/ GenerateOk(r) \/ YieldDoneOk(r) \/ SummaryOk(r)
    \/ Handler(r) \/ YieldDoneFail(r)

\* C2: two runs of the same request that differ only in whether a shadow
\* task is scheduled and in what becomes of it deliver the same events, stage
\* timings and pipeline summary: at any moment one client has received a
\* prefix of what the other has, at the same position of the stream (the same
\* step, after the same number of tokens) they have received the same, and no state of the shadow task keeps the stream from
\* taking its next step.
C2_ShadowNonInterference ==
    /\ \A a, b \in Reqs :
        LowInput(input[a]) = LowInput(input[b]) =>
            /\ IsPrefix(events[a], events[b]) \/ IsPrefix(events[b], events[a])
            /\ IsPrefix(stage_timings_ms[a], stage_timings_ms[b])
                 \/ IsPrefix(stage_timings_ms[b], stage_timings_ms[a])
            /\ pc[a] = pc[b] /\ tokens_out[a] = tokens_out[b] =>
                /\ events[a] = events[b]
                /\ stage_timings_ms[a] = stage_timings_ms[b]
                /\ summaries[a] = summaries[b]
                /\ failed_stage_ref[a] = failed_stage_ref[b]
    /\ \A r \in Reqs : pc[r] # "done" => ENABLED PrimaryStep(r)

\* Both streams of one request have ended with the same summary; one had no
\* shadow task, the other's shadow retrieval timed out.
C2_Witness ==
    /\ LowInput(input["r1"]) = LowInput(input["r2"])
    /\ pc["r1"] = "done" /\ pc["r2"] = "done"
    /\ shadow_outcome["r1"] = "timeout"
    /\ spc["r2"] = "idle"
    /\ Len(summaries["r1"]) = 1
    /\ summaries["r1"] = summaries["r2"]
    /\ events["r1"] = events["r2"]

C6_ErrorSignalThreeFields ==
    \A r \in Reqs :
        RunFailed(r) /\ pc[r] = "done" =>
            /\ Len(ErrorEvents(r)) = 1
            /\ ErrorEvents(r)[1].keys = {"message", "retryable", "code"}

StageStarts(r, stage) == {i \in DOMAIN trace[r] : trace[r][i] = <<stage, "start">>}

\* C6: a failed run gives the caller exactly one error signal: with message,
\* retryable and code when the exception is a DependencyError, with message
\* alone otherwise. The failure is classified once into one
\* (dependency, error_code) pair, and no stage body is run a second time.
C6_OneErrorSignal ==
    \A r \in Reqs :
        /\ Len(ErrorEvents(r)) <= 1
        /\ Len(provider_failures[r]) <= 1
        /\ \A stage \in SyncStages \cup {"generate"} : Cardinality(StageStarts(r, stage)) <= 1
        /\ RunFailed(r) /\ pc[r] = "done" =>
            LET e == input[r].fault.exc
                code == chat_error_code(e, failed_stage_ref[r])
            IN  /\ Len(ErrorEvents(r)) = 1
                /\ ErrorEvents(r)[1].keys =
                     IF e.dep THEN {"message", "retryable", "code"} ELSE {"message"}
                /\ e.dep => ErrorEvents(r)[1].flag =
                                IF e.retryable THEN "retryable" ELSE "permanent"
                /\ ErrorEvents(r)[1].msg = e.msg
                /\ provider_failures[r] = << <<dependency_from_error_code(code), code>> >>
                /\ summaries[r][1].error_code = code

\* The LLM stream failed with an exception that is no DependencyError.
C6_Witness ==
    /\ pc["r1"] = "done"
    /\ input["r1"].fault.stage = "generate"
    /\ ~input["r1"].fault.exc.dep
    /\ Len(ErrorEvents("r1")) = 1
    /\ ErrorEvents("r1")[1].keys = {"message"}

StepRank(step) ==
    CASE step = "rerank" -> 1
      [] step = "retrieve" -> 2
      [] step = "shadow" -> 3
      [] step = "build_context" -> 4
      [] step = "generate" -> 5

IsStart(m) == m[2] \in {"start", "launch"}

IsEnd(m) == m[2] \in {"ok", "launch"}

\* The steps a run of request r takes before step `step`.
StepsBefore(r, step) ==
    {s \in {"rerank", "retrieve", "shadow", "build_context", "generate"} :
        /\ StepRank(s) < StepRank(step)
        /\ s = "rerank" => PlanOf(input[r]).use_reranking
        /\ s = "shadow" => should_run_shadow_eval(input[r].cfg, r)}

\* C7: the steps of a run start in the order rerank, retrieve, shadow launch,
\* build_context, generate, each at most once; rerank only when the plan has
\* use_reranking and the shadow launch only when sampled; a step starts only
\* after every earlier step of the run has completed successfully; the shadow
\* task exists only after the retrieve stage has completed.
C7_StepOrder ==
    \A r \in Reqs :
        LET t == trace[r] IN
        /\ \A i, j \in DOMAIN t :
            i < j /\ IsStart(t[i]) /\ IsStart(t[j]) => StepRank(t[i][1]) < StepRank(t[j][1])
        /\ \A j \in DOMAIN t :
            IsStart(t[j]) =>
                /\ t[j][1] \in StepsBefore(r, "generate") \cup {"generate"}
                /\ \A s \in StepsBefore(r, t[j][1]) :
                    \E i \in 1..(j - 1) : t[i][1] = s /\ IsEnd(t[i])
        /\ \A j \in DOMAIN t :
            t[j][2] = "fail" => j = Len(t)
        /\ spc[r] # "idle" =>
            \E i, j \in DOMAIN t :
                i < j /\ t[i] = <<"retrieve", "ok">> /\ t[j] = <<"shadow", "launch">>

\* A sampled run with reranking has taken all five steps.
C7_Witness ==
    /\ pc["r1"] = "done"
    /\ spc["r1"] # "idle"
    /\ Len(stage_timings_ms["r1"]) = 4
    /\ Len(trace["r1"]) = 9

UnitsOf(r) == {Primary(r), Shadow(r), Thread(r)}

\* C8: every unit of a request sees only that request's id while it runs; the
\* stream and the shadow task hold their own id from entry to exit, and after
\* either has exited its context holds the value it found on entry again.
C8_CorrelationIdScoped ==
    \A r \in Reqs :
        /\ \A u \in UnitsOf(r) : seen[u] \subseteq {r}
        /\ pc[r] \notin {"init", "done"} => get_request_id(ctx, Primary(r)) = r
        /\ pc[r] = "done" => get_request_id(ctx, Primary(r)) = DefaultRequestId
        /\ spc[r] = "waiting" => get_request_id(ctx, Shadow(r)) = r
        /\ spc[r] = "done" => get_request_id(ctx, Shadow(r)) = token[Shadow(r)]
        /\ \A q \in Reqs \ {r} : \A u \in UnitsOf(q) : get_request_id(ctx, u) # r

\* One request has left by an early return while the other's stream and
\* shadow retrieval are still running.
C8_Witness ==
    /\ pc["r1"] = "done" /\ input["r1"].query_empty
    /\ pc["r2"] = "streaming"
    /\ spc["r2"] = "waiting"
    /\ seen[Thread("r2")] = {}
    /\ seen[Primary("r1")] = {"r1"}

ShadowStep(r) ==
    \/ ShadowBegin(r) \/ ShadowResolveOk(r) \/ ShadowResolveMalformed(r)
    \/ ShadowResolveRaise(r) \/ ShadowTimeout(r)

\* C9: the shadow retrieval is started at most once per run; when the timeout
\* expires before the retrieval has returned the run ends at once as an error
\* evaluation; a run that has ended takes no further step.
C9_ShadowBoundedNoRetry ==
    \A r \in Reqs :
        /\ shadow_retrievals[r] <= 1
        /\ shadow_outcome[r] = "timeout" =>
            /\ spc[r] = "done"
            /\ Len(evals[r]) = 1
            /\ evals[r][1].status = "error"
        /\ spc[r] = "done" => ~ENABLED ShadowStep(r)

\* The timeout expired, and the retrieval returned on its thread afterwards.
C9_Witness ==
    /\ shadow_outcome["r1"] = "timeout"
    /\ thr["r1"] = "returned_ok"
    /\ spc["r1"] = "done"

AllRetryable(excs) == \A i \in DOMAIN excs : is_retryable_exception(excs[i])

\* C3: with attempts = N >= 1 and only retryable errors, a call that returns
\* has invoked the operation once more than it failed, at most N times; a call
\* that raises has invoked it exactly N times and raises
\* RetryableDependencyError; the operation is never invoked more than N times.
C3_RetryCounts ==
    rw_attempts >= 1 /\ AllRetryable(rw_failures) =>
        /\ rw_calls <= rw_attempts
        /\ rw_pc = "returned" =>
            rw_calls = Len(rw_failures) + 1 /\ Len(rw_failures) < rw_attempts
        /\ rw_pc = "raised" =>
            /\ rw_calls = rw_attempts
            /\ Len(rw_failures) = rw_attempts
            /\ rw_raised = <<Exc("RetryableDependencyError", 0)>>
        /\ rw_pc \in {"returned", "raised"} => ~ENABLED RetryNext

\* Scenario D: two retryable failures, then success, attempts = 3.
C3_Witness ==
    /\ rw_attempts = 3
    /\ rw_pc = "returned"
    /\ Len(rw_failures) = 2
    /\ rw_calls = 3

\* C4: when the operation's last error was not retryable, retry_with_backoff
\* has raised that same exception: the operation was invoked no further, every
\* sleep was followed by an invocation, and nothing more happens.
C4_PermanentFailsFast ==
    Len(rw_failures) > 0 /\ ~is_retryable_exception(rw_failures[Len(rw_failures)]) =>
        /\ rw_pc = "raised"
        /\ rw_raised = <<rw_failures[Len(rw_failures)]>>
        /\ rw_raised[1].at = rw_calls
        /\ rw_calls = Len(rw_failures)
        /\ Len(rw_slept) = rw_calls - 1
        /\ ~ENABLED RetryNext

\* A permanent error on the second invocation, after one retryable failure.
C4_Witness ==
    /\ rw_pc = "raised"
    /\ Len(rw_failures) = 2
    /\ rw_failures[2].type = "RetryableDependencyError"
    /\ rw_raised[1].at = 2
    /\ Len(rw_slept) = 1

\* C10: the plan's use_reranking is true when the config is enabled with an
\* advanced strategy, whatever the client asked, and the client's value
\* otherwise; enabled, strategy, rewrite policy and reranker variant are the
\* config's.
C10_PlanForcesReranking ==
    plan_out # <<>> =>
        LET p == plan_out[1] IN
        /\ p.use_reranking =
             IF plan_cfg.enabled /\ plan_cfg.retrieval_strategy \in AdvancedStrategies
             THEN TRUE
             ELSE plan_request
        /\ p.advanced_enabled = plan_cfg.enabled
        /\ p.retrieval_strategy = plan_cfg.retrieval_strategy
        /\ p.query_rewrite_policy = plan_cfg.query_rewrite_policy
        /\ p.reranker_variant = plan_cfg.reranker_variant

\* The client asked for no reranking and the enabled advanced strategy forced it.
C10_Witness ==
    /\ plan_out # <<>>
    /\ ~plan_request
    /\ plan_cfg.enabled
    /\ plan_cfg.retrieval_strategy = "advanced_hybrid_rerank"
    /\ plan_out[1].use_reranking

\* C13: the rollout decision is false for every request id when the percent
\* is at or below 0 and true for every request id when it is at or above 100;
\* in between it is true exactly when the bucket of the seed, a number in
\* 0..99 fixed by the seed alone, is below the percent, and an absent or empty
\* request id decides as the seed "anonymous" does.
C13_RolloutDecision ==
    ro_rollout # <<>> =>
        /\ ro_percent <= 0 => ro_rollout[1] = FALSE
        /\ ro_percent >= 100 => ro_rollout[1] = TRUE
        /\ (ro_percent > 0 /\ ro_percent < 100) =>
               /\ Bucket(SeedOf(ro_seed)) \in 0 .. 99
               /\ ro_rollout[1] = (Bucket(SeedOf(ro_seed)) < ro_percent)
        /\ ro_seed \in {NoneId, ""} =>
               ro_rollout[1] =
                   IF ro_percent <= 0 THEN FALSE
                   ELSE IF ro_percent >= 100 THEN TRUE
                   ELSE Bucket("anonymous") < ro_percent

\* A request whose bucket equals the percent is left out of the rollout.
C13_Witness ==
    /\ ro_rollout = <<FALSE>>
    /\ ro_percent \in 1 .. 99
    /\ Bucket(SeedOf(ro_seed)) = ro_percent

\* C16: should_run_shadow_eval is false whenever the eval mode is not
\* "shadow", whatever the sample percent; with mode "shadow" it equals the
\* rollout decision on the same request id (absent and empty ids included)
\* at the eval sample percent.
C16_ShadowEvalIsRollout ==
    ro_shadow # <<>> =>
        ro_shadow[1] = IF ro_mode = "shadow"
                       THEN rollout_enabled(ro_seed, ro_percent)
                       ELSE FALSE

\* Mode other than shadow at a percent of 100: the sample is not taken.
C16_Witness ==
    /\ ro_shadow = <<FALSE>>
    /\ ro_mode # "shadow"
    /\ ro_percent >= 100

\* C17: the shadow plan of a primary plan with an advanced strategy is
\* baseline with use_reranking false and query rewrite disabled; the shadow
\* plan of any other primary plan is advanced_hybrid with use_reranking true
\* and the primary's rewrite policy, a primary policy of disabled becoming
\* simple. The shadow of the shadow need not be the primary plan.
C17_ShadowPlan ==
    plan_shadow # <<>> =>
        LET primary == plan_out[1]
            shadow == plan_shadow[1]
        IN  IF primary.retrieval_strategy \in AdvancedStrategies
            THEN /\ shadow.retrieval_strategy = "baseline"
                 /\ shadow.use_reranking = FALSE
                 /\ shadow.query_rewrite_policy = "disabled"
            ELSE /\ shadow.retrieval_strategy = "advanced_hybrid"
                 /\ shadow.use_reranking = TRUE
                 /\ shadow.query_rewrite_policy =
                        IF primary.query_rewrite_policy = "disabled"
                        THEN "simple"
                        ELSE primary.query_rewrite_policy

\* A baseline primary with the llm policy: its shadow keeps llm, and the
\* shadow of that shadow is not the primary plan.
C17_Witness ==
    /\ plan_shadow2 # <<>>
    /\ plan_out[1].retrieval_strategy = "baseline"
    /\ plan_out[1].query_rewrite_policy = "llm"
    /\ plan_shadow[1].query_rewrite_policy = "llm"
    /\ plan_shadow2[1] # plan_out[1]

\* The enabled flag in force: the payload's when request overrides are
\* allowed and the payload has the key, the process setting otherwise.
EffectiveRawEnabled ==
    IF /\ cfg_settings.adv_retrieval_allow_request_override
       /\ cfg_payload.adv_retrieval_enabled # Absent
    THEN cfg_payload.adv_retrieval_enabled = BoolVal(TRUE)
    ELSE cfg_settings.adv_retrieval_enabled = BoolVal(TRUE)

\* C11: the resolved config's enabled flag is the enabled flag in force
\* and-ed with the rollout decision for the request id at the clamped
\* rollout percent; with a rollout percent of 0 it is false for every request
\* id, every setting and every request override, an allowed override
\* adv_retrieval_enabled = true included.
C11_EnabledIsFlagAndRollout ==
    cfg_out # <<>> =>
        LET out == cfg_out[1] IN
        /\ out.enabled =
              (EffectiveRawEnabled /\ rollout_enabled(cfg_id, out.rollout_percent))
        /\ cfg_settings.adv_retrieval_rollout_percent = IntVal(0) => ~out.enabled

\* Rollout 0, the process flag on and an allowed override asking for true.
C11_Witness ==
    /\ cfg_out # <<>>
    /\ cfg_settings.adv_retrieval_rollout_percent = IntVal(0)
    /\ cfg_settings.adv_retrieval_enabled = BoolVal(TRUE)
    /\ cfg_settings.adv_retrieval_allow_request_override
    /\ cfg_payload.adv_retrieval_enabled = BoolVal(TRUE)
    /\ cfg_out[1].from_request_override
    /\ ~cfg_out[1].enabled

\* Scenario B's setting: a rollout percent of 100 and the strategy advanced_hybrid.
ScenarioB ==
    /\ cfg_out # <<>>
    /\ cfg_out[1].rollout_percent = 100
    /\ cfg_out[1].retrieval_strategy = "advanced_hybrid"

\* C12 as stated: with a rollout percent of 100 and the strategy
\* advanced_hybrid the resolved config is enabled and the plan made from it
\* uses reranking, whatever the caller asked.
C12_ScenarioBAsStated ==
    ScenarioB =>
        /\ cfg_out[1].enabled
        /\ cfg_plan # <<>> => cfg_plan[1].plan.use_reranking

\* C12: with the enabled flag in force true, a rollout percent of 100 and the
\* strategy advanced_hybrid the resolved config is enabled and the plan made
\* from it uses reranking, also when the caller asked for none.
C12_ScenarioB ==
    (ScenarioB /\ EffectiveRawEnabled) =>
        /\ cfg_out[1].enabled
        /\ cfg_plan # <<>> => cfg_plan[1].plan.use_reranking

\* The flag on, rollout 100, advanced_hybrid, and a caller asking for no reranking.
C12_Witness ==
    /\ ScenarioB
    /\ EffectiveRawEnabled
    /\ cfg_plan # <<>>
    /\ ~cfg_plan[1].request_use_reranking
    /\ cfg_plan[1].plan.use_reranking

\* The process settings with the value of every given payload key in place of
\* the process value of the same name.
OverriddenSettings(Given(_, _)) ==
    [key \in DOMAIN cfg_settings |->
        IF key \in DOMAIN cfg_payload /\ Given(key, cfg_payload[key])
        THEN IF key = "adv_retrieval_enabled"
             THEN BoolVal(cfg_payload[key] = BoolVal(TRUE))
             ELSE cfg_payload[key]
        ELSE cfg_settings[key]]

\* The config of the same request without a payload.
ProcessConfig == AdvancedRetrievalConfig(cfg_settings, NoPayload, cfg_id)

SameButOverrideMark(a, b) ==
    [a EXCEPT !.from_request_override = FALSE] = [b EXCEPT !.from_request_override = FALSE]

\* A key is present in the payload.
Present(key, value) == value # Absent

\* A key is present with a value that counts: anything for
\* adv_retrieval_enabled, a non-empty (truthy) value for the other keys.
Supplied(key, value) ==
    /\ value # Absent
    /\ key # "adv_retrieval_enabled" => Truthy(value)

RawInForce(key) == OverriddenSettings(
                       LAMBDA k, v : /\ cfg_settings.adv_retrieval_allow_request_override
                                     /\ Supplied(k, v))[key]

\* A string that names one of the allowed values once stripped and lowered.
Names(raw, allowed_values) == raw.t = "str" /\ raw.word \in allowed_values

ContractVariants(q) ==
    <<str_strip(q),
      str_lower(str_strip(q)),
      str_strip(str_lower(sub_whitespace(sub_punctuation(q))))>>

\* The non-empty variants, each at its first occurrence only.
FirstSeen(c) ==
    (IF c[1] # <<>> THEN <<c[1]>> ELSE <<>>)
    \o (IF c[2] # <<>> /\ c[2] # c[1] THEN <<c[2]>> ELSE <<>>)
    \o (IF c[3] # <<>> /\ c[3] # c[1] /\ c[3] # c[2] THEN <<c[3]>> ELSE <<>>)

RECURSIVE ContractScore(_, _)
ContractScore(n, chunk_id) ==
    IF n = 0 THEN <<0, 0>>
    ELSE IF RankIn(fu_results[n], chunk_id) = 0 THEN ContractScore(n - 1, chunk_id)
    ELSE exact_add(ContractScore(n - 1, chunk_id),
                   Recip(rrf_k + RankIn(fu_results[n], chunk_id)))

FusedIds == {fu_results[n][idx] : n \in DOMAIN fu_results, idx \in 1 .. ListDepth}

\* x is discovered before y: in an earlier list, or earlier in the same list.
DiscoveredBefore(x, y) ==
    LET first(c) == CHOOSE n \in DOMAIN fu_results :
                        /\ RankIn(fu_results[n], c) # 0
                        /\ \A m \in 1 .. (n - 1) : RankIn(fu_results[m], c) = 0
    IN  \/ first(x) < first(y)
        \/ /\ first(x) = first(y)
           /\ RankIn(fu_results[first(x)], x) < RankIn(fu_results[first(y)], y)

\* x comes before y in the contract's order: the higher score first, and of
\* two chunks with the same score the one discovered first.
ContractBefore(x, y) ==
    LET sx == ContractScore(Len(fu_results), x)
        sy == ContractScore(Len(fu_results), y)
    IN  \/ float_less(sy, sx)
        \/ sx = sy /\ DiscoveredBefore(x, y)

Occurrences(c) == {n \in DOMAIN fu_results : RankIn(fu_results[n], c) # 0}

\* C18: the result of retrieve with fusion is the distinct chunk ids of all
\* per-reformulation lists, sorted descending by the sum over their
\* occurrences of 1 / (rrf_k + rank), chunks with the same score in the order
\* of their first discovery, truncated to k. So no id is twice in the
\* output, the output has at most k elements, and a chunk in two lists comes
\* before a chunk that is in one list only at a rank no better than the best
\* rank of the first.
C18_FusedOrder ==
    fu_out # <<>> =>
        LET k == fu_out[1]
            out == fu_out[2]
            fused == fu_fused[1]
        IN  /\ Len(out) = Min(k, Cardinality(FusedIds))
            /\ {out[i] : i \in 1 .. Len(out)} \subseteq FusedIds
            /\ \A i, j \in 1 .. Len(out) : i < j =>
                   out[i] # out[j] /\ ContractBefore(out[i], out[j])
            /\ \A i \in 1 .. Len(out) :
                   \A y \in FusedIds \ {out[j] : j \in 1 .. Len(out)} :
                       ContractBefore(out[i], y)
            /\ \A i, j \in 1 .. Len(fused) :
                   (/\ Cardinality(Occurrences(fused[i])) >= 2
                    /\ Occurrences(fused[j]) # {}
                    /\ Cardinality(Occurrences(fused[j])) = 1
                    /\ \E n \in Occurrences(fused[i]) :
                          \A m \in Occurrences(fused[j]) :
                              RankIn(fu_results[n], fused[i]) <= RankIn(fu_results[m], fused[j]))
                   => i < j

\* C19: order preservation. With a single reformulation the result of
\* retrieve with fusion is the single retrieved list in its original order,
\* truncated to k.
C19_SingleListOrderPreserved ==
    (fu_out # <<>> /\ Len(fu_results) = 1) =>
        fu_out[2] = SubSeq(fu_results[1], 1, Min(fu_out[1], Len(fu_results[1])))

\* One list of more than k chunks, cut to its first k.
C19_Witness ==
    /\ fu_out # <<>>
    /\ Len(fu_results) = 1
    /\ fu_out[1] = 2
    /\ Len(fu_results[1]) > 2
    /\ fu_out[2] = <<fu_results[1][1], fu_results[1][2]>>

\* -------------------------------------------------------------------------
\* The chunk ids of a list, as a set; a chunk without an id has none.
IdSet(chunks) == {chunks[i].chunk_id : i \in DOMAIN chunks} \ {""}

\* C21: the overlap metric of the shadow evaluation is
\* |A \cap B| / |A \cup B| over the id sets A of the primary chunks and B of
\* the shadow chunks: shared_ids is |A \cap B|; jaccard is 0.0 when both sets
\* are empty and 1.0 when they are the same non-empty set, lies within [0, 1],
\* and is the same with primary and shadow swapped.
C21_Jaccard ==
    ev_out # <<>> =>
        LET A == IdSet(ev_primary)
            B == IdSet(ev_shadow)
            j == ev_out[1].jaccard
        IN  /\ ev_out[1].shared_ids = Cardinality(A \cap B)
            /\ j[2] > 0 /\ GCD(j[1], j[2]) = 1
            /\ j[1] * Cardinality(A \cup B) = j[2] * Cardinality(A \cap B)
            /\ A \cup B = {} => j = <<0, 1>>
            /\ (A = B /\ A # {}) => j = <<1, 1>>
            /\ 0 <= j[1] /\ j[1] <= j[2]
            /\ shadow_eval_metrics(ev_shadow, ev_primary, ev_budget).jaccard = j

\* An evaluation of two overlapping, different, non-empty id sets, the
\* primary list holding a chunk without an id.
C21_Witness ==
    /\ ev_out # <<>>
    /\ ev_out[1].jaccard = <<1, 2>>
    /\ ev_out[1].shared_ids = 1
    /\ \E i \in DOMAIN ev_primary : ev_primary[i].chunk_id = ""
    /\ Len(ev_shadow) = 2

\* The characters the first n blocks of a list take in the context window,
\* each with its two-character separator.
RECURSIVE PackedChars(_, _)
PackedChars(chunks, n) ==
    IF n = 0 THEN 0
    ELSE PackedChars(chunks, n - 1) + block_len(context_block(chunks[n])) + 2

\* The blocks greedy packing in list order takes: the longest prefix that
\* fits, so that the first block that would overflow ends the packing.
GreedyCount(chunks, budget) ==
    CHOOSE n \in 0 .. Len(chunks) :
        /\ PackedChars(chunks, n) <= budget
        /\ n < Len(chunks) => PackedChars(chunks, n + 1) > budget

\* ceil(char_count / 4)
IsCeilOfQuarter(tokens, char_count) == 4 * tokens >= char_count /\ 4 * (tokens - 1) < char_count

\* C27: with the character budget of build_context, the context-size proxy
\* of the shadow evaluation counts as many blocks as build_context includes
\* for the same list; the blocks are the longest prefix of the list that
\* fits, later blocks are not packed however small; the token proxy is
\* ceil(char_count / 4).
C27_ProxyAgreesWithBuildContext ==
    (ev_out # <<>> /\ ev_context # <<>>) =>
        LET m == ev_out[1]
            parts == ev_context[1]
        IN  /\ m.primary_context_chunks = Len(parts)
            /\ m.shadow_context_chunks = Len(build_context(ev_shadow, ev_budget))
            /\ Len(parts) = GreedyCount(ev_primary, ev_budget)
            /\ parts = [i \in 1 .. Len(parts) |-> context_block(ev_primary[i])]
            /\ m.primary_context_chars = PackedChars(ev_primary, Len(parts))
            /\ m.shadow_context_chars = PackedChars(ev_shadow, m.shadow_context_chunks)
            /\ IsCeilOfQuarter(m.primary_context_token_proxy, m.primary_context_chars)
            /\ IsCeilOfQuarter(m.shadow_context_token_proxy, m.shadow_context_chars)

\* A list whose first block overflows the budget while its second, smaller
\* block would fit: nothing is packed.
C27_Witness ==
    /\ ev_out # <<>>
    /\ ev_context # <<>>
    /\ Len(ev_primary) = 2
    /\ PackedChars(ev_primary, 1) > ev_budget
    /\ block_len(context_block(ev_primary[2])) + 2 <= ev_budget
    /\ ev_out[1].primary_context_chunks = 0
    /\ ev_out[1].shadow_context_chunks = 1
    /\ Len(ev_shadow) = 2

\* -------------------------------------------------------------------------
\* The observer threads inside their with block on label key k.
InProgress(k) == {t \in Observers : mx_pc[t] # "idle" /\ mx_key[t] = k}

\* C22: an observation holds the one lock from its first increment to its
\* last, so no increment is lost and none is seen alone: a thread inside a
\* with block is the holder of the lock; whenever no observation of a label
\* key is in progress, the eval counter and the count of each of the three
\* histograms of that key equal the observations made for it; and every text
\* rendered shows the four counts of a key equal.
C22_LockedObservations ==
    /\ \A t \in MetricThreads : mx_pc[t] # "idle" => mx_lock = t
    /\ \A k \in MetricKeys :
           InProgress(k) = {} => \A i \in DOMAIN Series : mx_series[i][k] = mx_done[k]
    /\ \A text \in mx_renders :
           \A k \in MetricKeys : \A i \in DOMAIN text : text[i][k] = text[1][k]

\* Both observer threads have reported under the same label key, and a text
\* rendered between their observations shows one of them.
C22_Witness ==
    /\ \E k \in MetricKeys :
           /\ mx_done[k] = 2 * MaxObservations
           /\ \E text \in mx_renders : text[1][k] = 1
    /\ \A t \in MetricThreads : mx_left[t] = 0 /\ mx_pc[t] = "idle"

CompletedStages(r) ==
    LET ended == SelectSeq(trace[r], LAMBDA m : m[2] = "ok")
    IN  [i \in DOMAIN ended |-> ended[i][1]]

\* The stages of request r whose body raised.
RaisedStages(r) == {trace[r][i][1] : i \in {j \in DOMAIN trace[r] : trace[r][j][2] = "fail"}}

C29_LifecycleBalanced ==
    (\A r \in Reqs : pc[r] \in {"init", "done"})
        => lifecycle.started = lifecycle.completed + lifecycle.failed

\* -------------------------------------------------------------------------
\* C30, as stated: the shadow plan of every plan resolve_retrieval_plan
\* returns has use_reranking equal to the negation of the primary plan's.
C30_ShadowNegatesRerankingAsStated ==
    plan_shadow # <<>> => plan_shadow[1].use_reranking = ~plan_out[1].use_reranking

\* The primary plan reranks exactly when its strategy is an advanced one.
RerankingFollowsStrategy(plan) ==
    plan.use_reranking = (plan.retrieval_strategy \in AdvancedStrategies)

\* C30: the shadow plan of every plan resolve_retrieval_plan returns has
\* use_reranking equal to the negation of "the primary's strategy is an
\* advanced one"; it is the negation of the primary's use_reranking exactly
\* when the primary reranks as its strategy says, which every enabled plan
\* with an advanced strategy does.
C30_ShadowNegatesReranking ==
    plan_shadow # <<>> =>
        LET primary == plan_out[1]
            shadow == plan_shadow[1]
        IN  /\ shadow.use_reranking = ~(primary.retrieval_strategy \in AdvancedStrategies)
            /\ (shadow.use_reranking = ~primary.use_reranking)
                   <=> RerankingFollowsStrategy(primary)
            /\ (primary.advanced_enabled /\ primary.retrieval_strategy \in AdvancedStrategies)
                   => RerankingFollowsStrategy(primary)

\* A baseline primary whose client asked for reranking: the shadow plan
\* reranks as well.
C30_Witness ==
    /\ plan_shadow # <<>>
    /\ plan_out[1].retrieval_strategy = "baseline"
    /\ plan_request
    /\ plan_out[1].use_reranking
    /\ plan_shadow[1].use_reranking

\* C25: once enforce_timeout_budget has raised, no enclosing
\* retry_with_backoff invokes the operation again and the failure leaves
\* retrieve as it was raised.
C25_BudgetFailureNotRetried ==
    [][(nt_pc = "outer_except" /\ nt_exc[1].origin = "budget")
        => (nt_pc' = "raised" /\ nt_raised' = nt_exc)]_vars

\* C28 as stated: one retrieve call invokes the embedding operation at most
\* `attempts` times and the database query at most `attempts` times.
C28_RetriesDoNotMultiplyAsStated ==
    /\ nt_embed_calls <= nt_attempts
    /\ nt_query_calls <= nt_attempts

\* C28: a RetryableDependencyError of the embedding call is not retried by
\* the retry around _retrieve_once and leaves retrieve as raised; one
\* retrieve call executes the database query at most `attempts` times and
\* invokes the embedding operation at most attempts * attempts times.
C28_RetriesDoNotMultiply ==
    /\ [][(nt_pc = "outer_except" /\ nt_exc[1].origin = "embed_retry")
           => (nt_pc' = "raised" /\ nt_raised' = nt_exc
               /\ nt_embed_calls' = nt_embed_calls
               /\ nt_query_calls' = nt_query_calls)]_vars
    /\ [](/\ nt_query_calls <= nt_attempts
          /\ nt_embed_calls <= nt_attempts * nt_attempts)

\* The embedding call exhausted its attempts in a retried attempt of the
\* retrieval, so the operation ran more often than `attempts`, and its
\* RetryableDependencyError left retrieve.
C28_Witness ==
    /\ nt_pc = "raised"
    /\ nt_raised # <<>>
    /\ nt_raised[1].origin = "embed_retry"
    /\ nt_attempts >= 2
    /\ nt_outer >= 2
    /\ nt_embed_calls > nt_attempts
    /\ nt_query_calls >= 1

\* The reformulations a call fans out to, by its arguments.
ExpectedReformulations ==
    IF tk_use_reranking THEN simple_reformulations(tk_query) ELSE <<tk_query>>

\* The i-th retrieval issued is the one of the i-th reformulation.
IssuedInOrder ==
    /\ Len(tk_issued) <= Len(ExpectedReformulations)
    /\ \A i \in 1 .. Len(tk_issued) : tk_issued[i].query = ExpectedReformulations[i]

\* The list of the only retrieval, as it came back.
ReturnedUnmodified ==
    /\ Len(tk_issued) = 1
    /\ tk_out = <<[j \in DOMAIN tk_issued[1].rows |->
                      [chunk_id |-> tk_issued[1].rows[j], rerank_score |-> <<>>]]>>

\* C26 as stated: a call that returned issued exactly one retrieval per
\* reformulation, in order, each with fetch size max(k, 10) with reranking
\* and k without; without reranking it issued exactly one and returned its
\* list unmodified.
C26_OneRetrievalPerReformulationAsStated ==
    tk_pc = "returned" =>
        /\ IssuedInOrder
        /\ Len(tk_issued) = Len(ExpectedReformulations)
        /\ \A i \in 1 .. Len(tk_issued) :
               tk_issued[i].limit = IF tk_use_reranking THEN Max(tk_k, 10) ELSE tk_k
        /\ ~tk_use_reranking => ReturnedUnmodified

\* C26: a call with an empty query issues no retrieval and returns [].  Any
\* other call issues its retrievals in reformulation order, at most one per
\* reformulation and exactly one for each once it has returned, with fetch
\* size per_query_k when that argument is given and not 0, else max(k, 10)
\* with reranking and k without; without reranking a call that returned
\* issued exactly one retrieval and returned its list unmodified.
C26_OneRetrievalPerReformulation ==
    IF tk_query = <<>>
    THEN /\ tk_issued = <<>>
         /\ tk_pc = "returned" => tk_out = << <<>> >>
    ELSE /\ IssuedInOrder
         /\ \A i \in 1 .. Len(tk_issued) :
                tk_issued[i].limit =
                    IF tk_per_query_k # <<>> /\ tk_per_query_k[1] # 0
                    THEN tk_per_query_k[1]
                    ELSE IF tk_use_reranking THEN Max(tk_k, 10) ELSE tk_k
         /\ tk_pc = "returned" =>
                /\ Len(tk_issued) = Len(ExpectedReformulations)
                /\ ~tk_use_reranking => ReturnedUnmodified

\* A reranking call for one chunk fanned out to three reformulations, each
\* fetched with size 10.
C26_Witness ==
    /\ tk_pc = "returned"
    /\ tk_use_reranking
    /\ tk_per_query_k = <<>>
    /\ tk_k = 1
    /\ Len(tk_issued) = 3
    /\ \A i \in 1 .. 3 : tk_issued[i].limit = 10 /\ Len(tk_issued[i].rows) = 2
    /\ Len(tk_out[1]) = 1

====
